---- MODULE Spec2Model ----
(***************************************************************************)
(* Model of the URL identity and page-versioning subsystem of the SEM      *)
(* catalogue: normalize_url / page_id_from_canonical (app/utils/           *)
(* canonical.py), upsert_page (app/services/pages.py), process_url         *)
(* (app/ai/process.py), and the daily tasks that write the inventory table *)
(* (scripts/daily_tasks).                                                  *)
(*                                                                         *)
(* URLs are TLA+ strings; the string operators below read them character   *)
(* by character, as the Python code does.                                  *)
(***************************************************************************)
EXTENDS Integers, Sequences, FiniteSets, TLC

(***************************************************************************)
(* String helpers (Python str methods used by the code).                   *)
(***************************************************************************)

\* printable ASCII, code 32 .. 126; Ascii[n - 31] is chr(n).  Code 96 (the
\* backquote) cannot be written in a string here: its slot holds a blank, and
\* no URL of the model holds a backquote or the escape %60.
Ascii == " !\"#$%&'()*+,-./0123456789:;<=>?@ABCDEFGHIJKLMNOPQRSTUVWXYZ[\\]^_ abcdefghijklmnopqrstuvwxyz{|}~"

Chr(n) == SubSeq(Ascii, n - 31, n - 31)

CharAt(s, i) == SubSeq(s, i, i)

\* s[i:] with a 1-based i
From(s, i) == IF i > Len(s) THEN "" ELSE SubSeq(s, i, Len(s))

\* s[:n]
Prefix(s, n) == IF n >= Len(s) THEN s ELSE SubSeq(s, 1, n)

StartsWith(s, p) == Len(s) >= Len(p) /\ SubSeq(s, 1, Len(p)) = p

EndsWith(s, p) == Len(s) >= Len(p) /\ SubSeq(s, Len(s) - Len(p) + 1, Len(s)) = p

\* str.find(c, from i): the first index >= i holding character c, 0 when absent
RECURSIVE Find(_, _, _)
Find(s, c, i) ==
    IF i > Len(s) THEN 0
    ELSE IF CharAt(s, i) = c THEN i
    ELSE Find(s, c, i + 1)

UpperLetters == "ABCDEFGHIJKLMNOPQRSTUVWXYZ"

LowerLetters == "abcdefghijklmnopqrstuvwxyz"

DecimalDigits == "0123456789"

CharsOf(s) == {CharAt(s, i) : i \in 1..Len(s)}

UpperSet == CharsOf(UpperLetters)

AlphaSet == CharsOf(UpperLetters) \cup CharsOf(LowerLetters)

DigitSet == CharsOf(DecimalDigits)

IsUpper(c) == c \in UpperSet

IsAlpha(c) == c \in AlphaSet

\* the lower-case letter of each upper-case letter
ToLower == [c \in UpperSet |-> CharAt(LowerLetters, Find(UpperLetters, c, 1))]

LowerChar(c) == IF IsUpper(c) THEN ToLower[c] ELSE c

\* int(c) for a decimal digit c
DigitVal(c) == Find(DecimalDigits, c, 1) - 1

\* str.lower()
RECURSIVE Lower(_)
Lower(s) == IF s = "" THEN "" ELSE LowerChar(CharAt(s, 1)) \o Lower(From(s, 2))

\* str.split(sep) for a one-character separator
RECURSIVE Split(_, _)
Split(s, sep) ==
    LET i == Find(s, sep, 1)
    IN  IF i = 0 THEN <<s>>
        ELSE <<Prefix(s, i - 1)>> \o Split(From(s, i + 1), sep)

\* sep.join(parts)
RECURSIVE Join(_, _)
Join(parts, sep) ==
    IF parts = <<>> THEN ""
    ELSE IF Len(parts) = 1 THEN parts[1]
    ELSE parts[1] \o sep \o Join(Tail(parts), sep)

\* str.replace(a, b) for one-character a
RECURSIVE Replace(_, _, _)
Replace(s, a, b) ==
    IF s = "" THEN ""
    ELSE (IF CharAt(s, 1) = a THEN b ELSE CharAt(s, 1)) \o Replace(From(s, 2), a, b)

(***************************************************************************)
(* urllib.parse, as called by normalize_url.                               *)
(***************************************************************************)

\* urllib.parse.scheme_chars
SchemeCharSet == AlphaSet \cup DigitSet \cup {"+", "-", "."}

IsSchemeChar(c) == c \in SchemeCharSet

\* urllib.parse.uses_netloc
uses_netloc == {"", "ftp", "http", "gopher", "nntp", "telnet", "imap", "wais",
                "file", "mms", "https", "shttp", "snews", "prospero", "rtsp",
                "rtsps", "rtspu", "rsync", "svn", "svn+ssh", "sftp", "nfs",
                "git", "git+ssh", "ws", "wss"}

\* min over the delimiters "/", "?", "#" found at or after i; Len+1 when none
FirstDelim(s, i) ==
    LET cands == {Find(s, c, i) : c \in {"/", "?", "#"}} \ {0}
    IN  IF cands = {} THEN Len(s) + 1
        ELSE CHOOSE d \in cands : \A e \in cands : d <= e

\* s split at index i of a separator: <<before, after>>; <<s, "">> when i = 0
SplitAt(s, i) == IF i > 0 THEN <<Prefix(s, i - 1), From(s, i + 1)>> ELSE <<s, "">>

\* urlsplit, the scheme: url[:i] is one when i is the index of the first ":"
\* and the characters before it are a letter followed by scheme characters
HasScheme(url, i) ==
    /\ i > 1
    /\ IsAlpha(CharAt(url, 1))
    /\ \A k \in 1..(i - 1) : IsSchemeChar(CharAt(url, k))

\* <<scheme, rest>>
SplitScheme(url, i) ==
    IF HasScheme(url, i) THEN <<Lower(Prefix(url, i - 1)), From(url, i + 1)>> ELSE <<"", url>>

\* urlsplit, the netloc: <<netloc, rest>> for the delimiter index d
SplitNetloc(u, d) ==
    IF StartsWith(u, "//")
    THEN <<IF d > 3 THEN SubSeq(u, 3, d - 1) ELSE "", From(u, d)>>
    ELSE <<"", u>>

UrlParts(scheme, netloc, pq, fragment) ==
    [scheme |-> scheme, netloc |-> netloc, path |-> pq[1], query |-> pq[2],
     fragment |-> fragment]

\* urlsplit, the fragment and then the query of what follows the netloc
SplitRest(scheme, netloc, pf) ==
    UrlParts(scheme, netloc, SplitAt(pf[1], Find(pf[1], "?", 1)), pf[2])

SplitAfterNetloc(scheme, nr) ==
    SplitRest(scheme, nr[1], SplitAt(nr[2], Find(nr[2], "#", 1)))

SplitAfterScheme(sr) == SplitAfterNetloc(sr[1], SplitNetloc(sr[2], FirstDelim(sr[2], 3)))

\* urlparse(url): scheme, netloc, path, query, fragment.  URLs of the model
\* hold no ";" (path parameters), no brackets and no leading blanks.
urlparse(url) == SplitAfterScheme(SplitScheme(url, Find(url, ":", 1)))

\* urlunparse((scheme, netloc, path, "", query, ""))
urlunparse(scheme, netloc, path, query) ==
    LET u1 == IF netloc # "" \/ (scheme # "" /\ scheme \in uses_netloc /\ ~StartsWith(path, "//"))
              THEN "//" \o netloc \o (IF path # "" /\ ~StartsWith(path, "/") THEN "/" \o path ELSE path)
              ELSE path
        u2 == IF scheme # "" THEN scheme \o ":" \o u1 ELSE u1
    IN  IF query # "" THEN u2 \o "?" \o query ELSE u2

HexDigits == "0123456789abcdef"

HexVal(c) == Find(HexDigits, LowerChar(c), 1) - 1

\* urllib.parse.unquote: %XX becomes chr(0xXX); anything else is kept.
\* Escapes outside printable ASCII do not occur in the model's inputs.
RECURSIVE unquote(_)
unquote(s) ==
    IF s = "" THEN ""
    ELSE IF /\ CharAt(s, 1) = "%"
            /\ Len(s) >= 3
            /\ HexVal(CharAt(s, 2)) >= 0
            /\ HexVal(CharAt(s, 3)) >= 0
            /\ 16 * HexVal(CharAt(s, 2)) + HexVal(CharAt(s, 3)) \in (32..126) \ {96}
         THEN Chr(16 * HexVal(CharAt(s, 2)) + HexVal(CharAt(s, 3))) \o unquote(From(s, 4))
         ELSE CharAt(s, 1) \o unquote(From(s, 2))

\* one "name=value" field of parse_qsl(..., keep_blank_values=True)
ParseField(nv) ==
    LET e == Find(nv, "=", 1)
        name == IF e = 0 THEN nv ELSE Prefix(nv, e - 1)
        value == IF e = 0 THEN "" ELSE From(nv, e + 1)
    IN  <<unquote(Replace(name, "+", " ")), unquote(Replace(value, "+", " "))>>

RECURSIVE ParseFields(_)
ParseFields(fields) ==
    IF fields = <<>> THEN <<>>
    ELSE (IF fields[1] = "" THEN <<>> ELSE <<ParseField(fields[1])>>)
         \o ParseFields(Tail(fields))

\* parse_qsl(qs, keep_blank_values=True): the list of (name, value) pairs
parse_qsl(qs) == IF qs = "" THEN <<>> ELSE ParseFields(Split(qs, "&"))

(***************************************************************************)
(* app/utils/canonical.py                                                  *)
(***************************************************************************)

TRACKING_PARAMS == {"utm_source", "utm_medium", "utm_campaign", "utm_term",
                    "utm_content", "gclid", "fbclid", "msclkid", "aff_id",
                    "aff_sub", "subid", "sid"}

KeepSlashes(p) == p

\* re.sub(r"//+", "/", path)
RECURSIVE CollapseSlashes(_)
CollapseSlashes(p) ==
    IF p = "" THEN ""
    ELSE IF StartsWith(p, "//") THEN CollapseSlashes(From(p, 2))
    ELSE CharAt(p, 1) \o CollapseSlashes(From(p, 2))

\* [(k, v) for k, v in pairs if k not in TRACKING_PARAMS]
RECURSIVE StripTracking(_)
StripTracking(pairs) ==
    IF pairs = <<>> THEN <<>>
    ELSE (IF pairs[1][1] \in TRACKING_PARAMS THEN <<>> ELSE <<pairs[1]>>)
         \o StripTracking(Tail(pairs))

\* "&".join(f"{k}={v}" for k, v in q)
FormatQuery(pairs) == Join([i \in 1..Len(pairs) |-> pairs[i][1] \o "=" \o pairs[i][2]], "&")

\* canonical.py:24
NormalScheme(scheme) == IF scheme = "" THEN "https" ELSE scheme

\* canonical.py:28-29: one trailing slash goes, unless the path is "/"
StripTrailingSlash(path) ==
    IF EndsWith(path, "/") /\ Len(path) > 1 THEN Prefix(path, Len(path) - 1) ELSE path

\* canonical.py:32
NormalQuery(q) == IF q # <<>> THEN FormatQuery(q) ELSE ""

\* canonical.py:24-33, for the urlparse result parsed
NormalizeParsed(parsed) ==
    urlunparse(NormalScheme(Lower(parsed.scheme)),
               Lower(parsed.netloc),
               StripTrailingSlash(CollapseSlashes(parsed.path)),
               NormalQuery(StripTracking(parse_qsl(parsed.query))))

normalize_url(url) == NormalizeParsed(urlparse(url))

\* hashlib.sha256(...).hexdigest(): a fixed one-way function of its input,
\* kept symbolic (two digests are equal exactly when their inputs are).
sha256_hexdigest(s) == "sha256:" \o s

\* The URLs the table model hands to normalize_url, with normalize_url of each
\* computed once; any other URL is normalized on the spot.
BASE_URLS ==
    {"https://a.com/p/", "https://a.com/q/", "https://a.com/p/?gclid=1",
     "https://a.com/p", "https://a.com/q"}

NORMALIZED == [u \in BASE_URLS |-> normalize_url(u)]

Normalize(url) == IF url \in BASE_URLS THEN NORMALIZED[url] ELSE normalize_url(url)

page_id_from_canonical(canonical_url) == sha256_hexdigest(Normalize(canonical_url))

(***************************************************************************)
(* State.                                                                  *)
(***************************************************************************)

VARIABLES
    rows,       \* pages_sem_inventory: the sequence of rows; a row's id is its index
    extracts,   \* page_ai_extracts: the sequence of saved raw extractions
    today,      \* date.today(), as a day number
    ops,        \* the number of operations run so far
    call,       \* the operation that ran last, with its arguments and outcome
    nurl,       \* normalization check: the URL under test
    npass,      \* normalization check: the results of successive normalize_url calls
    nalt,       \* normalization check: a variant of the URL and its normalize_url
    conc,       \* concurrent upserts: the sessions of the two workers
    batch,      \* batch driver: the queue, the workers and the results
    fetch,      \* fetch_html: the transport answers and the progress of one call
    recon,      \* reconcile_one: the model output and the merged signals
    daily,      \* daily orchestrator: its position, its stats and the task logs
    crawl       \* crawler rate limit: the clock, the tasks and the fetch times

vars == <<rows, extracts, today, ops, call, nurl, npass, nalt, conc, batch, fetch, recon, daily, crawl>>

\* the value of a variable in the specifications that do not use it
Unused == <<>>

\* Python None for optional strings
None == "None"

\* an Optional[List[str]] argument: NoneList for None, SomeList(l) for the list l
NoneList == <<>>

SomeList(l) == <<l>>

\* Python None for the optional integer argument catalogued
NoneInt == -1

\* the value of a NOT NULL date column that an INSERT left out (zero date)
NoDate == 0

(***************************************************************************)
(* app/services/pages.py: upsert_page                                      *)
(***************************************************************************)

\* a variant of the rule that counts only a 200 response as catalogued
AutoCataloguedOnSuccess(catalogued, status_code) ==
    IF catalogued # NoneInt THEN catalogued
    ELSE IF status_code = 200 THEN 1 ELSE 0

\* pages.py:70 and :93
AutoCatalogued(catalogued, status_code) ==
    IF catalogued # NoneInt THEN catalogued
    ELSE IF status_code # 0 THEN 1 ELSE 0

\* brand_list = brand_list or []
OrEmptyList(l) == IF l = NoneList THEN <<>> ELSE l[1]

\* a variant of the inserted row that leaves the two dates to the database
ValuesWithoutDates(a, day) ==
    [page_id |-> a.page_id,
     url |-> a.url,
     canonical_url |-> a.canonical_url,
     status_code |-> a.status_code,
     primary_category |-> a.primary_category,
     vertical |-> a.vertical,
     template_type |-> a.template_type,
     has_coupons |-> a.has_coupons,
     has_promotions |-> a.has_promotions,
     brand_list |-> IF a.brand_list = NoneList THEN <<>> ELSE a.brand_list[1],
     brand_positions |-> a.brand_positions,
     product_list |-> IF a.product_list = NoneList THEN <<>> ELSE a.product_list[1],
     product_positions |-> a.product_positions,
     first_seen |-> NoDate,
     last_seen |-> NoDate,
     airtable_id |-> a.airtable_id,
     channel |-> a.channel,
     team |-> a.team,
     brand |-> a.brand,
     page_status |-> a.page_status,
     catalogued |-> IF a.catalogued # NoneInt THEN a.catalogued
                    ELSE IF a.status_code # 0 THEN 1 ELSE 0]

\* pages.py:47-71, the row a new version is built from
Values(a, day) ==
    [page_id |-> a.page_id,
     url |-> a.url,
     canonical_url |-> a.canonical_url,
     status_code |-> a.status_code,
     primary_category |-> a.primary_category,
     vertical |-> a.vertical,
     template_type |-> a.template_type,
     has_coupons |-> a.has_coupons,
     has_promotions |-> a.has_promotions,
     brand_list |-> OrEmptyList(a.brand_list),
     brand_positions |-> a.brand_positions,
     product_list |-> OrEmptyList(a.product_list),
     product_positions |-> a.product_positions,
     first_seen |-> day,
     last_seen |-> day,
     airtable_id |-> a.airtable_id,
     channel |-> a.channel,
     team |-> a.team,
     brand |-> a.brand,
     page_status |-> a.page_status,
     catalogued |-> AutoCatalogued(a.catalogued, a.status_code)]

\* a variant of the update that assigns the dict built for inserts, first_seen
\* included
UpdateColsFromValues(a, day) ==
    [url |-> a.url,
     canonical_url |-> a.canonical_url,
     status_code |-> a.status_code,
     primary_category |-> a.primary_category,
     vertical |-> a.vertical,
     template_type |-> a.template_type,
     has_coupons |-> a.has_coupons,
     has_promotions |-> a.has_promotions,
     brand_list |-> IF a.brand_list = NoneList THEN <<>> ELSE a.brand_list[1],
     brand_positions |-> a.brand_positions,
     product_list |-> IF a.product_list = NoneList THEN <<>> ELSE a.product_list[1],
     product_positions |-> a.product_positions,
     first_seen |-> day,
     last_seen |-> day,
     airtable_id |-> a.airtable_id,
     channel |-> a.channel,
     team |-> a.team,
     brand |-> a.brand,
     page_status |-> a.page_status,
     catalogued |-> IF a.catalogued # NoneInt THEN a.catalogued
                    ELSE IF a.status_code # 0 THEN 1 ELSE 0]

\* a variant of the update that leaves last_seen as it was
UpdateColsKeepingLastSeen(a, day) ==
    [url |-> a.url,
     canonical_url |-> a.canonical_url,
     status_code |-> a.status_code,
     primary_category |-> a.primary_category,
     vertical |-> a.vertical,
     template_type |-> a.template_type,
     has_coupons |-> a.has_coupons,
     has_promotions |-> a.has_promotions,
     brand_list |-> IF a.brand_list = NoneList THEN <<>> ELSE a.brand_list[1],
     brand_positions |-> a.brand_positions,
     product_list |-> IF a.product_list = NoneList THEN <<>> ELSE a.product_list[1],
     product_positions |-> a.product_positions,
     airtable_id |-> a.airtable_id,
     channel |-> a.channel,
     team |-> a.team,
     brand |-> a.brand,
     page_status |-> a.page_status,
     catalogued |-> IF a.catalogued # NoneInt THEN a.catalogued
                    ELSE IF a.status_code # 0 THEN 1 ELSE 0]

\* a variant of the update that assigns the page_id argument as well
UpdateColsWithPageId(a, day) ==
    [page_id |-> a.page_id,
     url |-> a.url,
     canonical_url |-> a.canonical_url,
     status_code |-> a.status_code,
     primary_category |-> a.primary_category,
     vertical |-> a.vertical,
     template_type |-> a.template_type,
     has_coupons |-> a.has_coupons,
     has_promotions |-> a.has_promotions,
     brand_list |-> IF a.brand_list = NoneList THEN <<>> ELSE a.brand_list[1],
     brand_positions |-> a.brand_positions,
     product_list |-> IF a.product_list = NoneList THEN <<>> ELSE a.product_list[1],
     product_positions |-> a.product_positions,
     last_seen |-> day,
     airtable_id |-> a.airtable_id,
     channel |-> a.channel,
     team |-> a.team,
     brand |-> a.brand,
     page_status |-> a.page_status,
     catalogued |-> IF a.catalogued # NoneInt THEN a.catalogued
                    ELSE IF a.status_code # 0 THEN 1 ELSE 0]

\* pages.py:72-94, the columns an in-place update assigns
UpdateCols(a, day) ==
    [url |-> a.url,
     canonical_url |-> a.canonical_url,
     status_code |-> a.status_code,
     primary_category |-> a.primary_category,
     vertical |-> a.vertical,
     template_type |-> a.template_type,
     has_coupons |-> a.has_coupons,
     has_promotions |-> a.has_promotions,
     brand_list |-> OrEmptyList(a.brand_list),
     brand_positions |-> a.brand_positions,
     product_list |-> OrEmptyList(a.product_list),
     product_positions |-> a.product_positions,
     last_seen |-> day,
     airtable_id |-> a.airtable_id,
     channel |-> a.channel,
     team |-> a.team,
     brand |-> a.brand,
     page_status |-> a.page_status,
     catalogued |-> AutoCatalogued(a.catalogued, a.status_code)]

\* for key, val in update_cols.items(): setattr(existing, key, val)
SetAttrs(row, cols) ==
    [f \in DOMAIN row |-> IF f \in DOMAIN cols THEN cols[f] ELSE row[f]]

\* session.add(new_record) followed by the caller's commit
InsertRow(tbl, row) == Append(tbl, row)

\* the in-place UPDATE of the row with primary key id
UpdateRow(tbl, id, cols) == [tbl EXCEPT ![id] = SetAttrs(tbl[id], cols)]

\* a variant of the lookup by id that finds only a row still uncatalogued
SelectPendingById(tbl, record_id) ==
    IF record_id \in 1..Len(tbl) /\ tbl[record_id].catalogued = 0 THEN record_id ELSE 0

\* select ... where id == record_id: the id found, 0 when there is none
SelectById(tbl, record_id) == IF record_id \in 1..Len(tbl) THEN record_id ELSE 0

MaxOf(S) == CHOOSE m \in S : \A x \in S : x <= m

\* a variant of the lookup that leaves out the filter on catalogued
LatestOfPage(tbl, page_id) ==
    LET ids == {i \in 1..Len(tbl) : tbl[i].page_id = page_id}
    IN  IF ids = {} THEN 0 ELSE MaxOf(ids)

\* select ... where page_id == p and catalogued == 0 order by id desc, first()
LatestUncatalogued(tbl, page_id) ==
    LET ids == {i \in 1..Len(tbl) : tbl[i].page_id = page_id /\ tbl[i].catalogued = 0}
    IN  IF ids = {} THEN 0 ELSE MaxOf(ids)

\* select ... where page_id == p order by last_seen desc, first(): is there one
AnyExisting(tbl, page_id) == \E i \in 1..Len(tbl) : tbl[i].page_id = page_id

\* the branch of upsert_page that a call takes (pages.py:96-137)
UpsertBranch(tbl, a) ==
    IF a.record_id # 0
    THEN IF SelectById(tbl, a.record_id) # 0 THEN "update_by_id" ELSE "insert_missing_id"
    ELSE IF LatestUncatalogued(tbl, a.page_id) # 0 THEN "update_pending"
    ELSE IF AnyExisting(tbl, a.page_id) THEN "insert_version"
    ELSE "insert_new"

\* the id of the row that upsert_page writes
UpsertTarget(tbl, a) ==
    LET b == UpsertBranch(tbl, a)
    IN  IF b = "update_by_id" THEN a.record_id
        ELSE IF b = "update_pending" THEN LatestUncatalogued(tbl, a.page_id)
        ELSE Len(tbl) + 1

\* upsert_page(session, **a) and the commit that follows it, on day `day`
upsert_page(tbl, a, day) ==
    LET b == UpsertBranch(tbl, a)
    IN  IF b \in {"update_by_id", "update_pending"}
        THEN UpdateRow(tbl, UpsertTarget(tbl, a), UpdateCols(a, day))
        ELSE InsertRow(tbl, Values(a, day))

\* the defaults of upsert_page's optional parameters (pages.py:16-42)
UpsertDefaults ==
    [primary_category |-> None, vertical |-> None, has_promotions |-> FALSE,
     brand_list |-> NoneList, brand_positions |-> None,
     product_list |-> NoneList, product_positions |-> None,
     airtable_id |-> None, channel |-> None, team |-> None, brand |-> None,
     page_status |-> None, catalogued |-> NoneInt, record_id |-> 0]

\* the full argument record of a call that passes the keywords kw
WithDefaults(kw) ==
    [f \in (DOMAIN UpsertDefaults) \cup (DOMAIN kw) |->
        IF f \in DOMAIN kw THEN kw[f] ELSE UpsertDefaults[f]]

(***************************************************************************)
(* JSON values, as json.loads returns them: <<"null">>, <<"bool", b>>,     *)
(* <<"num", n>>, <<"str", s>>, <<"list", seq>>, <<"dict", function>>.      *)
(***************************************************************************)

JNull == <<"null">>

JBool(b) == <<"bool", b>>

JStr(s) == <<"str", s>>

JList(l) == <<"list", l>>

JDict(d) == <<"dict", d>>

\* the dict with no key
EmptyDict == JDict([k \in {} |-> JNull])

IsDict(v) == v[1] = "dict"

IsStr(v) == v[1] = "str"

\* bool(v)
Truthy(v) ==
    IF v[1] = "null" THEN FALSE
    ELSE IF v[1] = "bool" THEN v[2]
    ELSE IF v[1] = "num" THEN v[2] # 0
    ELSE IF v[1] = "str" THEN v[2] # ""
    ELSE IF v[1] = "list" THEN v[2] # <<>>
    ELSE DOMAIN v[2] # {}

\* d.get(key, default) on a dict d
Get(d, key, default) == IF key \in DOMAIN d[2] THEN d[2][key] ELSE default

\* a or b
Or(a, b) == IF Truthy(a) THEN a ELSE b

\* str.strip()
RECURSIVE LStrip(_)
LStrip(s) == IF s # "" /\ CharAt(s, 1) = " " THEN LStrip(From(s, 2)) ELSE s

RECURSIVE RStrip(_)
RStrip(s) ==
    IF s # "" /\ CharAt(s, Len(s)) = " " THEN RStrip(Prefix(s, Len(s) - 1)) ELSE s

Strip(s) == LStrip(RStrip(s))

(***************************************************************************)
(* app/ai/reconcile.py: reconcile_one                                      *)
(***************************************************************************)

\* for x in v: the items a for loop visits; <<>> stands for "not iterable"
\* only together with ~Iterable(v)
Iterable(v) == v[1] \in {"list", "str", "dict"}

Items(v) ==
    IF v[1] = "list" THEN v[2]
    ELSE IF v[1] = "str" THEN [i \in 1..Len(v[2]) |-> JStr(CharAt(v[2], i))]
    ELSE <<>>

\* reconcile.py:23-25, :33: the stripped text fields of one listing
ListingName(li, key) == Or(Get(li, key, JNull), JStr(""))

ListingProduct(li) ==
    Or(Get(li, "product_name", JNull), Or(Get(li, "product_offer_name", JNull), JStr("")))

ListingLocation(li) == Or(Get(li, "location", JNull), JStr("other"))

\* the statements of reconcile_one that raise (TypeError, AttributeError) on
\* odd-shaped input: iterating a non-iterable, .get on a non-dict, len() of a
\* value without length, .strip() on a truthy value that is not a string
ReconcileRaises(data) ==
    LET listings == Get(data, "listings", JList(<<>>))
        other_promos == Get(data, "other_promotions", JList(<<>>))
        brands == Get(data, "brands", JList(<<>>))
        L == Items(listings)
        B == Items(brands)
        flagged == \E i \in 1..Len(L) :
                      /\ \A j \in 1..i : IsDict(L[j])
                      /\ Truthy(Get(L[i], "has_promotion", JNull))
    IN  \/ ~Iterable(listings)
        \/ listings[1] = "dict" /\ DOMAIN listings[2] # {}
        \/ \E i \in 1..Len(L) : ~IsDict(L[i])
        \/ ~flagged /\ ~Iterable(other_promos)
        \/ ~Iterable(brands)
        \/ brands[1] = "dict" /\ DOMAIN brands[2] # {}
        \/ \E i \in 1..Len(B) : ~IsDict(B[i])
        \/ \E i \in 1..Len(B) :
              IsDict(B[i]) /\ Truthy(Get(B[i], "brand_name", JNull))
                           /\ ~IsStr(Get(B[i], "brand_name", JNull))
        \/ \E i \in 1..Len(L) :
              /\ IsDict(L[i])
              /\ \/ ~IsStr(ListingName(L[i], "brand_name"))
                 \/ ~IsStr(ListingName(L[i], "position"))
                 \/ ~IsStr(ListingLocation(L[i]))
                 \/ ~IsStr(ListingProduct(L[i]))

\* the names stripped and the empties dropped, repetitions kept
RECURSIVE StrippedOnly(_, _)
StrippedOnly(names, seen) ==
    IF names = <<>> THEN <<>>
    ELSE (IF Strip(names[1]) = "" THEN <<>> ELSE <<Strip(names[1])>>)
         \o StrippedOnly(Tail(names), seen)

\* [x for x in {(x or "").strip(): None for x in names}.keys() if x]:
\* stripped, empties dropped, first occurrence kept
RECURSIVE DedupStripped(_, _)
DedupStripped(names, seen) ==
    IF names = <<>> THEN <<>>
    ELSE LET n == Strip(names[1])
         IN  IF n = "" \/ n \in seen THEN DedupStripped(Tail(names), seen)
             ELSE <<n>> \o DedupStripped(Tail(names), seen \cup {n})

\* [f(x) for x in items if x truthy]: the truthy strings of a list of values
RECURSIVE TruthyStrings(_)
TruthyStrings(vals) ==
    IF vals = <<>> THEN <<>>
    ELSE (IF Truthy(vals[1]) THEN <<vals[1][2]>> ELSE <<>>) \o TruthyStrings(Tail(vals))

\* reconcile.py:21-28 and :37-44; names[i] is listing i's stripped name
RECURSIVE PositionEntries(_, _)
PositionEntries(L, names) ==
    IF L = <<>> THEN <<>>
    ELSE LET pos == Strip(ListingName(L[1], "position")[2])
             loc == Strip(ListingLocation(L[1])[2])
         IN  (IF names[1] # "" /\ pos # "" /\ loc = "main_list"
              THEN <<names[1] \o ":" \o pos>> ELSE <<>>)
             \o PositionEntries(Tail(L), Tail(names))

JoinOrNone(parts) == IF parts = <<>> THEN None ELSE Join(parts, "; ")

\* a reconcile_one that leaves other_promotions out of has_promotions
ReconcileListingsOnly(data) ==
    LET listings == Get(data, "listings", JList(<<>>))
        brands == Get(data, "brands", JList(<<>>))
        L == Items(listings)
        B == Items(brands)
        from_brands == TruthyStrings([i \in 1..Len(B) |-> Get(B[i], "brand_name", JNull)])
        from_listings == TruthyStrings([i \in 1..Len(L) |-> Get(L[i], "brand_name", JNull)])
        brand_names == IF from_brands = <<>> THEN from_listings ELSE from_brands
        bn == [i \in 1..Len(L) |-> Strip(ListingName(L[i], "brand_name")[2])]
        pn == [i \in 1..Len(L) |-> Strip(ListingProduct(L[i])[2])]
    IN  [has_promotions |-> \E i \in 1..Len(L) : Truthy(Get(L[i], "has_promotion", JNull)),
         brand_list |-> DedupStripped(brand_names, {}),
         brand_positions |-> JoinOrNone(PositionEntries(L, bn)),
         product_list |-> DedupStripped(pn, {}),
         product_positions |-> JoinOrNone(PositionEntries(L, pn))]

\* reconcile_one(data) for a dict data on which it does not raise
reconcile_one(data) ==
    LET listings == Get(data, "listings", JList(<<>>))
        other_promos == Get(data, "other_promotions", JList(<<>>))
        brands == Get(data, "brands", JList(<<>>))
        L == Items(listings)
        B == Items(brands)
        from_brands == TruthyStrings([i \in 1..Len(B) |-> Get(B[i], "brand_name", JNull)])
        from_listings == TruthyStrings([i \in 1..Len(L) |-> Get(L[i], "brand_name", JNull)])
        brand_names == IF from_brands = <<>> THEN from_listings ELSE from_brands
        bn == [i \in 1..Len(L) |-> Strip(ListingName(L[i], "brand_name")[2])]
        pn == [i \in 1..Len(L) |-> Strip(ListingProduct(L[i])[2])]
    IN  [has_promotions |->
            \/ \E i \in 1..Len(L) : Truthy(Get(L[i], "has_promotion", JNull))
            \/ Truthy(other_promos),
         brand_list |-> DedupStripped(brand_names, {}),
         brand_positions |-> JoinOrNone(PositionEntries(L, bn)),
         product_list |-> DedupStripped(pn, {}),
         product_positions |-> JoinOrNone(PositionEntries(L, pn))]

(***************************************************************************)
(* app/crawler/run.py: the page markup helpers process_url uses.  A page   *)
(* is [len, href, template]: the length of the markup, the href of its     *)
(* <link rel="canonical"> ("" when it has none) and the TemplateName of    *)
(* its pageLevelData script (None when it has none).                       *)
(***************************************************************************)

\* run.py:25-31
extract_canonical(html, fallback_url) ==
    IF html.href # "" THEN Normalize(html.href) ELSE Normalize(fallback_url)

\* run.py:34-46, the template half of the pair it returns
extract_page_meta(html) == html.template

(***************************************************************************)
(* app/ai/process.py: process_url                                          *)
(***************************************************************************)

\* int(parts[0]) for a string of decimal digits
RECURSIVE ParseInt(_, _)
ParseInt(s, acc) ==
    IF s = "" THEN acc
    ELSE ParseInt(From(s, 2), 10 * acc + DigitVal(CharAt(s, 1)))

\* str.strip(c) for one character c
RECURSIVE StripChar(_, _)
StripChar(s, c) ==
    IF s # "" /\ CharAt(s, 1) = c THEN StripChar(From(s, 2), c)
    ELSE IF s # "" /\ CharAt(s, Len(s)) = c THEN StripChar(Prefix(s, Len(s) - 1), c)
    ELSE s

\* process.py:21-24: the record id carried by an "id|url" input
InputRecordId(input, record_id) ==
    LET bar == Find(input, "|", 1)
    IN  IF bar > 0 THEN ParseInt(Prefix(input, bar - 1), 0) ELSE record_id

\* process.py:21-28: the URL process_url works on
InputUrl(input) ==
    LET bar == Find(input, "|", 1)
        u0 == IF bar > 0 THEN From(input, bar + 1) ELSE input
        u1 == StripChar(StripChar(Strip(u0), "\""), "'")
    IN  IF ~StartsWith(u1, "http://") /\ ~StartsWith(u1, "https://")
        THEN "https://" \o u1 ELSE u1

\* a variant of the lookup that compares the stored url with the URL as given
ExistsByRawUrl(tbl, url) == \E i \in 1..Len(tbl) : tbl[i].url = url

\* process.py:32-39: the skip_if_exists lookup
ExistsByUrl(tbl, url) == \E i \in 1..Len(tbl) : tbl[i].url = Normalize(url)

\* process.py:41-45: the response kept after the optional second fetch
ChooseFetch(r1, r2) ==
    IF (r1.status >= 400 \/ r1.html.len < 1000)
       /\ r2.status < 400 /\ r2.html.len > r1.html.len
    THEN r2 ELSE r1

NeedsSecondFetch(r1) == r1.status >= 400 \/ r1.html.len < 1000

REDIRECTS == {301, 302, 303, 307, 308}

\* resolved_url or <fallback>
OrUrl(resolved_url, fallback) == IF resolved_url = None \/ resolved_url = "" THEN fallback ELSE resolved_url

RedirectArgsUnfetched(url, r, record_id) ==
    WithDefaults(
        [page_id |-> page_id_from_canonical(OrUrl(r.resolved_url, Normalize(url))),
         url |-> Normalize(url),
         canonical_url |-> OrUrl(r.resolved_url, Normalize(url)),
         status_code |-> 0,
         template_type |-> extract_page_meta(r.html),
         has_coupons |-> FALSE,
         has_promotions |-> FALSE,
         brand_list |-> SomeList(<<>>),
         brand_positions |-> None,
         product_list |-> SomeList(<<>>),
         product_positions |-> None,
         record_id |-> record_id])

\* process.py:50-69, the upsert of the redirect path
RedirectArgs(url, r, record_id) ==
    LET canonical == OrUrl(r.resolved_url, Normalize(url))
    IN  WithDefaults(
        [page_id |-> page_id_from_canonical(canonical),
         url |-> Normalize(url),
         canonical_url |-> canonical,
         status_code |-> r.status,
         template_type |-> extract_page_meta(r.html),
         has_coupons |-> FALSE,
         has_promotions |-> FALSE,
         brand_list |-> SomeList(<<>>),
         brand_positions |-> None,
         product_list |-> SomeList(<<>>),
         product_positions |-> None,
         record_id |-> record_id])

\* process.py:77-96, the upsert of the 404 path
NotFoundArgs(url, r, record_id) ==
    LET canonical == OrUrl(r.resolved_url, extract_canonical(r.html, url))
    IN  WithDefaults(
        [page_id |-> page_id_from_canonical(canonical),
         url |-> Normalize(url),
         canonical_url |-> canonical,
         status_code |-> 404,
         template_type |-> extract_page_meta(r.html),
         has_coupons |-> FALSE,
         has_promotions |-> FALSE,
         brand_list |-> SomeList(<<>>),
         brand_positions |-> None,
         product_list |-> SomeList(<<>>),
         product_positions |-> None,
         record_id |-> record_id])

\* process.py:124-134: the canonical URL of the success path.  The status is
\* no redirect here, and extract_canonical never returns an empty string.
SuccessCanonical(url, r) ==
    IF r.status \in REDIRECTS /\ r.resolved_url # None THEN r.resolved_url
    ELSE extract_canonical(r.html, url)

\* process.py:155-171, the upsert of the success path; data is the model
\* output, merged is reconcile_one's result
SuccessArgs(url, r, data, merged, record_id) ==
    LET canonical == SuccessCanonical(url, r)
    IN  WithDefaults(
        [page_id |-> page_id_from_canonical(canonical),
         url |-> Normalize(url),
         canonical_url |-> canonical,
         status_code |-> r.status,
         template_type |-> extract_page_meta(r.html),
         has_coupons |-> IF IsDict(data) THEN Truthy(Get(data, "has_coupons", JNull)) ELSE FALSE,
         has_promotions |-> merged.has_promotions,
         brand_list |-> SomeList(merged.brand_list),
         brand_positions |-> merged.brand_positions,
         product_list |-> SomeList(merged.product_list),
         product_positions |-> merged.product_positions,
         record_id |-> record_id])

\* save_ai_extract (pages.py:284-301) with the arguments of process.py:141-148
AiExtract(url, r, data) ==
    [page_id |-> page_id_from_canonical(SuccessCanonical(url, r)),
     url |-> Normalize(url),
     data |-> IF IsDict(data) THEN data ELSE JDict([k \in {"raw"} |-> JStr("str(data)")])]

\* process.py:32: skip_if_exists is read, and decides, only for a call without
\* record id whose URL has a row
SkipConsulted(tbl, input) ==
    InputRecordId(input, 0) = 0 /\ ExistsByUrl(tbl, InputUrl(input))

\* process.py:109: extract_with_openai is called once the fetches have not
\* raised and the response kept is neither a redirect nor a 404
ReachesExtract(r1, r2) ==
    LET r == IF NeedsSecondFetch(r1) THEN ChooseFetch(r1, r2) ELSE r1
    IN  ~r1.raised /\ r.status \notin REDIRECTS /\ r.status # 404

\* what `call` holds for an operation that issued no upsert_page
NoArgs == [none |-> TRUE]

\* the collaborators process_url has called, in order, when it ends at the
\* given stage: "skip" (process.py:39), "fetch" (a fetch_html that raised),
\* "early" (the redirect and 404 returns, process.py:72, :99), "extract"
\* (an exception of extract_with_openai or reconcile_one, process.py:109-117)
\* and "save" (the return of process.py:175)
Steps(r1, stage) ==
    IF stage = "skip" THEN <<>>
    ELSE IF stage = "fetch" THEN <<"fetch_html">>
    ELSE (IF NeedsSecondFetch(r1) THEN <<"fetch_html", "fetch_html">> ELSE <<"fetch_html">>)
         \o (IF stage = "early" THEN <<"upsert_page">>
             ELSE IF stage = "extract" THEN <<"fetch_screenshot", "extract_with_openai">>
             ELSE <<"fetch_screenshot", "extract_with_openai", "save_ai_extract",
                    "upsert_page">>)

\* process_url(input, skip_if_exists, record_id) as a function of the table
\* state and of what its collaborators answer: r1 and r2 are the responses
\* of the two fetch_html calls, x is the outcome of extract_with_openai.
\* The result holds the new tables, the upsert issued and the way it ended.
process_url(tbl, ext, day, input, skip_if_exists, record_id0, r1, r2, x) ==
    LET record_id == InputRecordId(input, record_id0)
        url == InputUrl(input)
        r == IF NeedsSecondFetch(r1) THEN ChooseFetch(r1, r2) ELSE r1
        unchanged(outcome, stage, status, reply) ==
            [rows |-> tbl, extracts |-> ext, args |-> NoArgs, outcome |-> outcome,
             steps |-> Steps(r1, stage), status |-> status, reply |-> reply]
        written(a, e, outcome, stage, reply) ==
            [rows |-> upsert_page(tbl, a, day), extracts |-> e, args |-> a,
             outcome |-> outcome, steps |-> Steps(r1, stage), status |-> r.status,
             reply |-> reply]
    IN  IF skip_if_exists /\ record_id = 0 /\ ExistsByUrl(tbl, url)
        THEN unchanged("skipped", "skip", 0, "none")
        ELSE IF r1.raised THEN unchanged("raised", "fetch", 0, "none")
        ELSE IF r.status \in REDIRECTS
        THEN written(RedirectArgs(url, r, record_id), ext, "redirect", "early", "none")
        ELSE IF r.status = 404
        THEN written(NotFoundArgs(url, r, record_id), ext, "not_found", "early", "none")
        ELSE IF x.raised THEN unchanged("raised", "extract", r.status, x.reply)
        ELSE IF ReconcileRaises(IF IsDict(x.data) THEN x.data ELSE EmptyDict)
        THEN unchanged("raised", "extract", r.status, x.reply)
        ELSE written(SuccessArgs(url, r, x.data,
                                 reconcile_one(IF IsDict(x.data) THEN x.data ELSE EmptyDict),
                                 record_id),
                     Append(ext, AiExtract(url, r, x.data)), "ok", "save", x.reply)

(***************************************************************************)
(* scripts/daily_tasks/scheduled_airtable_sync_optimized.py                *)
(***************************************************************************)

\* str.rstrip("/")
RECURSIVE RStripSlash(_)
RStripSlash(s) == IF EndsWith(s, "/") THEN RStripSlash(Prefix(s, Len(s) - 1)) ELSE s

\* str.replace(a, b) for a non-empty string a
RECURSIVE ReplaceStr(_, _, _)
ReplaceStr(s, a, b) ==
    IF s = "" THEN ""
    ELSE IF StartsWith(s, a) THEN b \o ReplaceStr(From(s, Len(a) + 1), a, b)
    ELSE CharAt(s, 1) \o ReplaceStr(From(s, 2), a, b)

\* the script's own normalize_url (lines 30-48)
sync_normalize_url(url) ==
    IF url = "" THEN ""
    ELSE LET u1 == Strip(Lower(url))
             u2 == ReplaceStr(u1, "https://", "http://")
             u3 == RStripSlash(u2)
         IN  IF StartsWith(u3, "http://forbes.com")
             THEN ReplaceStr(u3, "http://forbes.com", "http://www.forbes.com")
             ELSE u3

\* f"unified_{next_id:06d}"
RECURSIVE Decimal(_)
Decimal(n) == IF n < 10 THEN Chr(48 + n) ELSE Decimal(n \div 10) \o Chr(48 + (n % 10))

RECURSIVE ZeroPad(_, _)
ZeroPad(s, width) == IF Len(s) >= width THEN s ELSE ZeroPad("0" \o s, width)

UnifiedPageId(n) == "unified_" \o ZeroPad(Decimal(n), 6)

\* MAX(CAST(SUBSTRING(page_id, 9) AS UNSIGNED)) ... WHERE page_id LIKE 'unified_%'
MaxUnifiedId(tbl) ==
    LET ns == {ParseInt(From(tbl[i].page_id, 9), 0) :
                  i \in {j \in 1..Len(tbl) : StartsWith(tbl[j].page_id, "unified_")}}
    IN  IF ns = {} THEN 0 ELSE MaxOf(ns)

\* lines 71-82: the lookup built from the Airtable records, a later record
\* replacing an earlier one with the same normalized URL
AirtableByUrl(records) ==
    LET keys == {sync_normalize_url(records[i].landing_page) :
                    i \in {j \in 1..Len(records) : records[j].landing_page # ""}}
    IN  [k \in keys |->
            records[MaxOf({i \in 1..Len(records) :
                              records[i].landing_page # ""
                              /\ sync_normalize_url(records[i].landing_page) = k})]]

\* lines 94-99: the page statuses of the rows of each normalized URL
DbStatuses(tbl, k) == {tbl[i].page_status : i \in {j \in 1..Len(tbl) : sync_normalize_url(tbl[j].url) = k}}

DbUrls(tbl) == {sync_normalize_url(tbl[i].url) : i \in 1..Len(tbl)}

\* the row of the INSERT at lines 142-154; the columns it leaves out take the
\* column default, the NOT NULL ones without default their implicit default
PlaceholderRow(page_id, at) ==
    [page_id |-> page_id,
     url |-> at.landing_page,
     canonical_url |-> at.landing_page,
     status_code |-> 0,
     primary_category |-> at.primary_category,
     vertical |-> at.vertical,
     template_type |-> None,
     has_coupons |-> FALSE,
     has_promotions |-> FALSE,
     brand_list |-> <<>>,
     brand_positions |-> None,
     product_list |-> <<>>,
     product_positions |-> None,
     first_seen |-> NoDate,
     last_seen |-> NoDate,
     airtable_id |-> at.airtable_record_id,
     channel |-> None,
     team |-> None,
     brand |-> None,
     page_status |-> at.page_status,
     catalogued |-> 0]

\* lines 136-165: the inserts, in the order `order` of urls_to_add; accepted
\* tells for each URL whether the database accepted its INSERT
RECURSIVE InsertPlaceholders(_, _, _, _, _)
InsertPlaceholders(tbl, by_url, order, next_id, accepted) ==
    IF order = <<>> THEN tbl
    ELSE InsertPlaceholders(
            IF order[1] \in accepted
            THEN InsertRow(tbl, PlaceholderRow(UnifiedPageId(next_id), by_url[order[1]]))
            ELSE tbl,
            by_url, Tail(order), next_id + 1, accepted)

\* lines 108-119
UrlsToUpdate(tbl, by_url) ==
    {k \in (DOMAIN by_url) \cap DbUrls(tbl) :
        (IF by_url[k].page_status = "" THEN None ELSE by_url[k].page_status)
            \notin {IF st = "" THEN None ELSE st : st \in DbStatuses(tbl, k)}}

\* lines 174-201: UPDATE ... SET page_status WHERE url = original_url.rstrip('/')
UpdatePageStatus(tbl, by_url, to_update) ==
    [i \in 1..Len(tbl) |->
        LET hits == {k \in to_update : tbl[i].url = RStripSlash(by_url[k].landing_page)}
        IN  IF hits = {} THEN tbl[i]
            ELSE [tbl[i] EXCEPT !.page_status = by_url[CHOOSE k \in hits : TRUE].page_status]]

\* sync_airtable_data for the fetched records; both work lists are computed
\* from the table as it was read at the start (lines 88-119)
sync_airtable_data(tbl, records, order, accepted) ==
    LET by_url == AirtableByUrl(records)
        to_update == UrlsToUpdate(tbl, by_url)
        added == InsertPlaceholders(tbl, by_url, order, MaxUnifiedId(tbl) + 1, accepted)
    IN  UpdatePageStatus(added, by_url, to_update)

UrlsToAdd(tbl, records) == (DOMAIN AirtableByUrl(records)) \ DbUrls(tbl)

\* the orders in which a for loop can visit the set S
Orders(S) ==
    {o \in [1..Cardinality(S) -> S] : \A i, j \in 1..Cardinality(S) : i # j => o[i] # o[j]}

(***************************************************************************)
(* scripts/daily_tasks/check_updated_urls.py                               *)
(***************************************************************************)

\* lines 38-44: the lower-cased URLs of the rows linked to Airtable
LinkedUrls(tbl) == {Lower(tbl[i].url) : i \in {j \in 1..Len(tbl) : tbl[j].airtable_id # None}}

\* lines 66-73: the rows the "latest record for this URL" query can return
LatestByUrl(tbl, url) ==
    {i \in 1..Len(tbl) :
        /\ tbl[i].url = url
        /\ \A j \in 1..Len(tbl) : tbl[j].url = url => tbl[j].last_seen <= tbl[i].last_seen}

\* the row of the INSERT at lines 82-99
RecatalogueRow(latest, url, day) ==
    [page_id |-> latest.page_id,
     url |-> url,
     canonical_url |-> IF latest.canonical_url = "" THEN url ELSE latest.canonical_url,
     status_code |-> 0,
     primary_category |-> latest.primary_category,
     vertical |-> latest.vertical,
     template_type |-> None,
     has_coupons |-> FALSE,
     has_promotions |-> FALSE,
     brand_list |-> <<>>,
     brand_positions |-> None,
     product_list |-> <<>>,
     product_positions |-> None,
     first_seen |-> day,
     last_seen |-> day,
     airtable_id |-> latest.airtable_id,
     channel |-> None,
     team |-> None,
     brand |-> None,
     page_status |-> latest.page_status,
     catalogued |-> 0]

\* lines 63-105: the loop over urls_to_recatalogue.  picks[i] is the row the
\* "latest record" query returns for the i-th URL (0 when it finds none),
\* accepted[i] tells whether the database accepted the i-th INSERT.
RECURSIVE Recatalogue(_, _, _, _, _, _)
Recatalogue(tbl, urls, picks, accepted, i, day) ==
    IF i > Len(urls) THEN tbl
    ELSE Recatalogue(
            IF picks[i] # 0 /\ accepted[i]
            THEN InsertRow(tbl, RecatalogueRow(tbl[picks[i]], urls[i], day))
            ELSE tbl,
            urls, picks, accepted, i + 1, day)

\* picks is an answer the database can give while the loop runs
RECURSIVE PicksPossible(_, _, _, _, _, _)
PicksPossible(tbl, urls, picks, accepted, i, day) ==
    IF i > Len(urls) THEN TRUE
    ELSE /\ IF LatestByUrl(tbl, urls[i]) = {} THEN picks[i] = 0
            ELSE picks[i] \in LatestByUrl(tbl, urls[i])
         /\ PicksPossible(
               IF picks[i] # 0 /\ accepted[i]
               THEN InsertRow(tbl, RecatalogueRow(tbl[picks[i]], urls[i], day))
               ELSE tbl,
               urls, picks, accepted, i + 1, day)

\* lines 49-53: the updated URLs that are in the database
RECURSIVE UrlsToRecatalogue(_, _)
UrlsToRecatalogue(tbl, updated) ==
    IF updated = <<>> THEN <<>>
    ELSE (IF Lower(updated[1]) \in LinkedUrls(tbl) THEN <<updated[1]>> ELSE <<>>)
         \o UrlsToRecatalogue(tbl, Tail(updated))

\* check_updated_urls for the pages the crawler reports as updated
check_updated_urls(tbl, updated, picks, accepted, day) ==
    Recatalogue(tbl, UrlsToRecatalogue(tbl, updated), picks, accepted, 1, day)

(***************************************************************************)
(* Bounds and the inputs the operations are run on.  URLs of the table     *)
(* model are lower-case, so that a case-sensitive and a case-insensitive   *)
(* column collation compare them alike.                                    *)
(***************************************************************************)

\* the number of operations of one run
MaxOps == 3

\* the markup of a fetched page
HtmlNone == [len |-> 0, href |-> "", template |-> None]

HtmlCanon == [len |-> 2000, href |-> "https://a.com/p/?gclid=1", template |-> "listicle"]

\* what fetch_html can answer: (status, html, resolved_url), or RuntimeError
FetchRaised == [raised |-> TRUE, status |-> 0, html |-> HtmlNone, resolved_url |-> None]

FETCHES ==
    {[raised |-> FALSE, status |-> 200, html |-> HtmlCanon, resolved_url |-> None],
     [raised |-> FALSE, status |-> 301, html |-> HtmlNone, resolved_url |-> "https://a.com/q/"],
     [raised |-> FALSE, status |-> 404, html |-> HtmlNone, resolved_url |-> None],
     [raised |-> FALSE, status |-> 599, html |-> HtmlNone, resolved_url |-> None]}

\* what the second fetch_html call (process.py:43) can answer
SECOND_FETCHES ==
    {[raised |-> FALSE, status |-> 200, html |-> HtmlCanon, resolved_url |-> None],
     [raised |-> FALSE, status |-> 404, html |-> HtmlNone, resolved_url |-> None]}

\* the second answers drawn after a first answer r1: the direct fetch of a
\* page the rendered fetch reported moved or absent reports it absent, and
\* after a transport failure (599) it answers either way
SecondFetches(r1) ==
    IF r1.status = 599 THEN SECOND_FETCHES ELSE {r \in SECOND_FETCHES : r.status = 404}

\* the model outputs
ListingAcme ==
    JDict([k \in {"brand_name", "product_name", "position", "location", "has_promotion"} |->
            IF k = "brand_name" THEN JStr(" Acme ")
            ELSE IF k = "product_name" THEN JStr("Pro")
            ELSE IF k = "position" THEN JStr("1")
            ELSE IF k = "location" THEN JStr("main_list")
            ELSE JBool(TRUE)])

DataListing ==
    JDict([k \in {"listings", "other_promotions", "has_coupons"} |->
            IF k = "listings" THEN JList(<<ListingAcme>>)
            ELSE IF k = "other_promotions" THEN JList(<<>>)
            ELSE JBool(TRUE)])

DataNullListings == JDict([k \in {"listings"} |-> JNull])

\* what the model API can answer: a text that is JSON (given here as the
\* value json.loads makes of it), or a text that is not
REPLIES ==
    {[kind |-> "json", data |-> DataListing],
     [kind |-> "text", data |-> JStr("Sorry, I cannot")]}

\* extract.py:159-227: RuntimeError without an API key, the parsed output,
\* or {"raw": text} for an output that does not parse; reply names which of
\* these it was
extract_with_openai(openai_api_key, r) ==
    IF ~openai_api_key THEN [raised |-> TRUE, data |-> EmptyDict, reply |-> "no_key"]
    ELSE IF r.kind = "json" THEN [raised |-> FALSE, data |-> r.data, reply |-> "json"]
    ELSE [raised |-> FALSE, data |-> JDict([k \in {"raw"} |-> r.data]), reply |-> "text"]

\* stands for the extraction where process_url does not reach it
ExtractRaised == [raised |-> TRUE, data |-> EmptyDict, reply |-> "none"]

EXTRACTS == {extract_with_openai(k, r) : k \in BOOLEAN, r \in REPLIES}

\* the URLs handed to process_url by a seed list or the API
SEED_URLS == {"a.com/p/"}

\* process_uncatalogued.py:25-40 and :78-79: the "id|url" lines of the rows
\* with catalogued = 0 and status_code in (0, 200)
UncataloguedInputs(tbl) ==
    {Decimal(i) \o "|" \o tbl[i].url :
        i \in {j \in 1..Len(tbl) : tbl[j].catalogued = 0 /\ tbl[j].status_code \in {0, 200}}}

\* the record lists the Airtable API can return
AirtableP(page_status) ==
    [landing_page |-> "https://a.com/p/", primary_category |-> "Loans",
     vertical |-> "Finance", page_status |-> page_status, airtable_record_id |-> "recP"]

AIRTABLE_BATCHES == {<<AirtableP("Active")>>, <<AirtableP("Inactive")>>}

\* the page lists the crawler service can report as updated
CRAWLER_BATCHES == {<<"https://a.com/p/">>}

\* keyword arguments of direct upsert_page calls: a crawl snapshot that leaves
\* the CRM fields out, the same passed as explicitly pending, and a CRM-side
\* placeholder that supplies category, vertical and the CRM fields
SNAPSHOTS ==
    {[page_id |-> page_id_from_canonical("https://a.com/p"),
      url |-> "https://a.com/p", canonical_url |-> "https://a.com/p",
      status_code |-> 200, template_type |-> "listicle", has_coupons |-> TRUE,
      brand_list |-> SomeList(<<"acme">>)],
     [page_id |-> page_id_from_canonical("https://a.com/p"),
      url |-> "https://a.com/p", canonical_url |-> "https://a.com/p",
      status_code |-> 200, template_type |-> "listicle", has_coupons |-> TRUE,
      brand_list |-> SomeList(<<"acme">>), catalogued |-> 0],
     [page_id |-> page_id_from_canonical("https://a.com/q"),
      url |-> "https://a.com/q", canonical_url |-> "https://a.com/q",
      status_code |-> 0, template_type |-> None, has_coupons |-> FALSE,
      primary_category |-> "Cards", vertical |-> "Finance",
      airtable_id |-> "recQ", channel |-> "SEM", team |-> "T1", brand |-> "B1",
      page_status |-> "Active"]}

(***************************************************************************)
(* The inventory specification.                                            *)
(***************************************************************************)

NoCall == [op |-> "none", args |-> NoArgs, branch |-> "none", target |-> 0,
           outcome |-> "none", steps |-> <<>>, status |-> 0, reply |-> "none"]

Init ==
    /\ rows = <<>>
    /\ extracts = <<>>
    /\ today = 1
    /\ ops = 0
    /\ call = NoCall
    /\ nurl = ""
    /\ npass = <<>>
    /\ nalt = Unused
    /\ conc = Unused
    /\ batch = Unused
    /\ fetch = Unused
    /\ recon = Unused
    /\ daily = Unused
    /\ crawl = Unused

\* the calendar day advances
Tick ==
    /\ ops < MaxOps
    /\ ops' = ops + 1
    /\ today' = today + 1
    /\ call' = [NoCall EXCEPT !.op = "tick"]
    /\ UNCHANGED <<rows, extracts, nurl, npass, nalt, conc, batch, fetch, recon, daily, crawl>>

\* a direct call of upsert_page followed by session.commit()
UpsertPage ==
    /\ ops < MaxOps
    /\ ops' = ops + 1
    /\ \E kw \in SNAPSHOTS, record_id \in 0..(Len(rows) + 1) :
        LET a == [WithDefaults(kw) EXCEPT !.record_id = record_id]
        IN  /\ rows' = upsert_page(rows, a, today)
            /\ call' = [op |-> "upsert_page", args |-> a, branch |-> UpsertBranch(rows, a),
                        target |-> UpsertTarget(rows, a), outcome |-> "ok",
                        steps |-> <<"upsert_page">>, status |-> 0, reply |-> "none"]
    /\ UNCHANGED <<extracts, today, nurl, npass, nalt, conc, batch, fetch, recon, daily, crawl>>

\* process_url on a seed URL or on an "id|url" line naming a pending row.
\* skip_if_exists is drawn only where the code reads it, the second response
\* only when a second fetch is made, the extraction only when it is reached.
ProcessUrl ==
    /\ ops < MaxOps
    /\ ops' = ops + 1
    /\ \E input \in SEED_URLS \cup UncataloguedInputs(rows), r1 \in FETCHES \cup {FetchRaised} :
       \E skip_if_exists \in IF SkipConsulted(rows, input) THEN BOOLEAN ELSE {FALSE},
          r2 \in IF NeedsSecondFetch(r1) /\ ~r1.raised THEN SecondFetches(r1) ELSE {r1} :
       \E x \in IF ReachesExtract(r1, r2) THEN EXTRACTS ELSE {ExtractRaised} :
        LET res == process_url(rows, extracts, today, input, skip_if_exists, 0, r1, r2, x)
        IN  /\ rows' = res.rows
            /\ extracts' = res.extracts
            /\ call' = [op |-> "process_url", args |-> res.args,
                        branch |-> IF res.args = NoArgs THEN "none"
                                   ELSE UpsertBranch(rows, res.args),
                        target |-> IF res.args = NoArgs THEN 0
                                   ELSE UpsertTarget(rows, res.args),
                        outcome |-> res.outcome, steps |-> res.steps,
                        status |-> res.status, reply |-> res.reply]
    /\ UNCHANGED <<today, nurl, npass, nalt, conc, batch, fetch, recon, daily, crawl>>

\* one run of the Airtable sync
SyncAirtable ==
    /\ ops < MaxOps
    /\ ops' = ops + 1
    /\ \E records \in AIRTABLE_BATCHES :
       \E order \in Orders(UrlsToAdd(rows, records)), accepted \in SUBSET UrlsToAdd(rows, records) :
        /\ rows' = sync_airtable_data(rows, records, order, accepted)
        /\ call' = [NoCall EXCEPT !.op = "sync_airtable_data"]
    /\ UNCHANGED <<extracts, today, nurl, npass, nalt, conc, batch, fetch, recon, daily, crawl>>

\* one run of the crawler update check
CheckUpdatedUrls ==
    /\ ops < MaxOps
    /\ ops' = ops + 1
    /\ \E updated \in CRAWLER_BATCHES :
       \E picks \in [1..Len(UrlsToRecatalogue(rows, updated)) -> 0..Len(rows)],
          accepted \in [1..Len(UrlsToRecatalogue(rows, updated)) -> BOOLEAN] :
        /\ PicksPossible(rows, UrlsToRecatalogue(rows, updated), picks, accepted, 1, today)
        /\ rows' = check_updated_urls(rows, updated, picks, accepted, today)
        /\ call' = [NoCall EXCEPT !.op = "check_updated_urls"]
    /\ UNCHANGED <<extracts, today, nurl, npass, nalt, conc, batch, fetch, recon, daily, crawl>>

Next ==
    \/ Tick
    \/ UpsertPage
    \/ ProcessUrl
    \/ SyncAirtable
    \/ CheckUpdatedUrls

Spec == Init /\ [][Next]_vars

(***************************************************************************)
(* The normalization specification: normalize_url applied to a URL, and    *)
(* then to its own result.  The URLs are assembled from a scheme, a host,  *)
(* a path, up to MaxParams query fields and a fragment.                    *)
(***************************************************************************)

\* the number of query fields of a URL under test
MaxParams == 2

NORM_SCHEMES == {"", "http://", "HTTP://"}

NORM_PATHS == {"", "/", "/p", "/p/", "//p//Q"}

\* a plain field, a tracking field, a blank value, the escapes of "&", "+"
\* and "=" in a value, and a field in upper case
NORM_FIELDS == {"q=1", "utm_source=x", "b=", "k=a%26b", "v=%2B", "e=%3D", "K=V"}

NORM_FRAGMENTS == {"", "#f"}

RECURSIVE FieldLists(_)
FieldLists(n) ==
    IF n = 0 THEN {<<>>}
    ELSE FieldLists(n - 1) \cup
         {Append(l, f) : l \in {m \in FieldLists(n - 1) : Len(m) = n - 1}, f \in NORM_FIELDS}

NORM_QUERIES == {IF l = <<>> THEN "" ELSE "?" \o Join(l, "&") : l \in FieldLists(MaxParams)}

NORM_URLS ==
    {s \o "A.com" \o p \o q \o f :
        s \in NORM_SCHEMES, p \in NORM_PATHS, q \in NORM_QUERIES, f \in NORM_FRAGMENTS}

\* the index at which the path of url starts, as urlsplit sees it: after the
\* netloc of "scheme://netloc", after "scheme:", or at the start
PathStart(url, i) ==
    IF HasScheme(url, i)
    THEN (IF StartsWith(From(url, i + 1), "//") THEN FirstDelim(url, i + 3) ELSE i + 1)
    ELSE (IF StartsWith(url, "//") THEN FirstDelim(url, 3) ELSE 1)

\* The URLs that differ from url in one respect normalize_url is to ignore;
\* ps is the index where the path starts, pe the index where it ends, q and h
\* the indexes of "?" and "#" (0 when absent):
\*   case      scheme and host in lower case
\*   slashes   the first slash of the path doubled
\*   trailing  a non-root path with its trailing slash added or removed
\*   tracking  a tracking parameter added in front of the query
\*   fragment  the fragment removed, or one added
VariantsAt(url, ps, pe, q, h) ==
    {[kind |-> "case", url |-> Lower(Prefix(url, ps - 1)) \o From(url, ps)]}
    \cup {[kind |-> "slashes",
           url |-> Prefix(url, x) \o From(url, x)] :
             x \in {y \in {Find(url, "/", ps)} : y > 0 /\ y <= pe}}
    \cup {[kind |-> "trailing",
           url |-> IF CharAt(url, pe) = "/"
                   THEN Prefix(url, pe - 1) \o From(url, pe + 1)
                   ELSE Prefix(url, pe) \o "/" \o From(url, pe + 1)] :
             x \in {y \in {pe - ps + 1} : y > 1}}
    \cup {[kind |-> "tracking",
           url |-> IF q > 0 THEN Prefix(url, q) \o "gclid=1&" \o From(url, q + 1)
                   ELSE Prefix(url, pe) \o "?gclid=1" \o From(url, pe + 1)]}
    \cup {[kind |-> "fragment",
           url |-> IF h > 0 THEN Prefix(url, h - 1) ELSE url \o "#top"]}

\* the end of the path is the character before the first "?" or "#"
Variants(url) ==
    VariantsAt(url, PathStart(url, Find(url, ":", 1)),
               FirstDelim(Replace(url, "/", "."), 1) - 1,
               Find(url, "?", 1), Find(url, "#", 1))

NoAlt == [kind |-> "none", url |-> "", out |-> ""]

NormInit ==
    /\ nurl \in NORM_URLS
    /\ npass = <<>>
    /\ nalt = NoAlt
    /\ conc = Unused
    /\ batch = Unused
    /\ fetch = Unused
    /\ recon = Unused
    /\ daily = Unused
    /\ crawl = Unused
    /\ rows = <<>>
    /\ extracts = <<>>
    /\ today = 1
    /\ ops = 0
    /\ call = NoCall

\* normalize_url(u)
NormalizeOnce ==
    /\ npass = <<>>
    /\ npass' = <<normalize_url(nurl)>>
    /\ UNCHANGED <<rows, extracts, today, ops, call, nurl, nalt, conc, batch, fetch, recon, daily, crawl>>

\* normalize_url(normalize_url(u))
NormalizeAgain ==
    /\ Len(npass) = 1
    /\ nalt = NoAlt
    /\ npass' = Append(npass, normalize_url(npass[1]))
    /\ UNCHANGED <<rows, extracts, today, ops, call, nurl, nalt, conc, batch, fetch, recon, daily, crawl>>

\* normalize_url(v) for a variant v of the URL under test
NormalizeVariant ==
    /\ Len(npass) = 1
    /\ nalt = NoAlt
    /\ \E v \in Variants(nurl) :
          nalt' = [kind |-> v.kind, url |-> v.url, out |-> normalize_url(v.url)]
    /\ UNCHANGED <<rows, extracts, today, ops, call, nurl, npass, conc, batch, fetch, recon, daily, crawl>>

NormNext ==
    \/ NormalizeOnce
    \/ NormalizeAgain
    \/ NormalizeVariant

NormSpec == NormInit /\ [][NormNext]_vars

(***************************************************************************)
(* Properties.  `call` holds the operation that led to the current state:  *)
(* call.branch is "none" unless the operation issued an upsert_page, and   *)
(* then call.args are that call's arguments and call.target is the id of   *)
(* the row it wrote.                                                       *)
(***************************************************************************)

\* row holds the content fields of the snapshot a
SnapshotFields(row, a) ==
    /\ row.url = a.url
    /\ row.canonical_url = a.canonical_url
    /\ row.status_code = a.status_code
    /\ row.template_type = a.template_type
    /\ row.has_coupons = a.has_coupons
    /\ row.has_promotions = a.has_promotions
    /\ row.brand_list = (IF a.brand_list = NoneList THEN <<>> ELSE a.brand_list[1])
    /\ row.brand_positions = a.brand_positions
    /\ row.product_list = (IF a.product_list = NoneList THEN <<>> ELSE a.product_list[1])
    /\ row.product_positions = a.product_positions

\* C1: an upsert_page that updates a row in place (by record_id, or as the
\* pending row of its page_id) and supplies neither primary_category nor
\* vertical leaves unchanged the primary_category and vertical of a row that
\* has one of them set.
C1_CategoryProtection ==
    [][(/\ call'.branch \in {"update_by_id", "update_pending"}
        /\ call'.args.primary_category = None
        /\ call'.args.vertical = None
        /\ (rows[call'.target].primary_category # None
            \/ rows[call'.target].vertical # None))
       => (/\ rows'[call'.target].primary_category = rows[call'.target].primary_category
           /\ rows'[call'.target].vertical = rows[call'.target].vertical)]_vars

\* C2: when process_url completes a placeholder through its record id (the
\* upsert of its success path), the row's airtable_id, channel, team, brand
\* and page_status are afterwards what they were before.
C2_CrmFieldsKept ==
    [][(call'.op = "process_url" /\ call'.outcome = "ok" /\ call'.branch = "update_by_id")
       => (/\ rows'[call'.target].airtable_id = rows[call'.target].airtable_id
           /\ rows'[call'.target].channel = rows[call'.target].channel
           /\ rows'[call'.target].team = rows[call'.target].team
           /\ rows'[call'.target].brand = rows[call'.target].brand
           /\ rows'[call'.target].page_status = rows[call'.target].page_status)]_vars

\* C3: in every reachable state each page_id has at most one row with
\* catalogued = 0.
C3_OnePendingRowPerPage ==
    \A i, j \in 1..Len(rows) :
        (/\ rows[i].page_id = rows[j].page_id
         /\ rows[i].catalogued = 0
         /\ rows[j].catalogued = 0) => i = j

\* C4: an upsert_page without record_id for a page_id that has no row adds
\* exactly one row and changes no other; the new row has first_seen =
\* last_seen = today and carries the snapshot.
C4_NewPageInsertsOneRow ==
    [][(/\ call'.branch # "none"
        /\ call'.args.record_id = 0
        /\ \A i \in 1..Len(rows) : rows[i].page_id # call'.args.page_id)
       => (/\ Len(rows') = Len(rows) + 1
           /\ SubSeq(rows', 1, Len(rows)) = rows
           /\ rows'[Len(rows')].first_seen = today
           /\ rows'[Len(rows')].last_seen = today
           /\ rows'[Len(rows')].page_id = call'.args.page_id
           /\ rows'[Len(rows')].primary_category = call'.args.primary_category
           /\ rows'[Len(rows')].vertical = call'.args.vertical
           /\ rows'[Len(rows')].airtable_id = call'.args.airtable_id
           /\ rows'[Len(rows')].page_status = call'.args.page_status
           /\ SnapshotFields(rows'[Len(rows')], call'.args))]_vars

\* C4, its case: a first snapshot of a page_id was inserted into a table that
\* already held a row of another page
C4_Witness ==
    /\ call.branch = "insert_new"
    /\ call.args.record_id = 0
    /\ Len(rows) >= 2
    /\ rows[Len(rows)].page_id = call.args.page_id
    /\ rows[Len(rows)].first_seen = today

\* C5: an upsert_page without record_id for a page_id that has an uncatalogued
\* row overwrites such a row in place: the row count is unchanged, the row
\* keeps its id, its page_id and its first_seen, its last_seen becomes today,
\* it holds the snapshot, and every other row is unchanged.
C5_PendingRowOverwrittenInPlace ==
    [][(/\ call'.branch # "none"
        /\ call'.args.record_id = 0
        /\ \E i \in 1..Len(rows) :
              rows[i].page_id = call'.args.page_id /\ rows[i].catalogued = 0)
       => (/\ Len(rows') = Len(rows)
           /\ \E t \in 1..Len(rows) :
                /\ rows[t].page_id = call'.args.page_id
                /\ rows[t].catalogued = 0
                /\ rows'[t].page_id = rows[t].page_id
                /\ rows'[t].first_seen = rows[t].first_seen
                /\ rows'[t].last_seen = today
                /\ SnapshotFields(rows'[t], call'.args)
                /\ \A j \in 1..Len(rows) : j # t => rows'[j] = rows[j])]_vars

\* C5, its case: a pending row first seen on an earlier day was overwritten
C5_Witness ==
    /\ call.branch = "update_pending"
    /\ rows[call.target].first_seen # NoDate
    /\ rows[call.target].first_seen < today
    /\ rows[call.target].last_seen = today

\* C6: an upsert_page without record_id for a page_id whose rows are all
\* catalogued adds one row and leaves every existing row unchanged; the new
\* row's last_seen is the greatest last_seen among the rows of the page_id.
C6_HistoryPreserved ==
    [][(/\ call'.branch # "none"
        /\ call'.args.record_id = 0
        /\ \E i \in 1..Len(rows) : rows[i].page_id = call'.args.page_id
        /\ \A i \in 1..Len(rows) :
              rows[i].page_id = call'.args.page_id => rows[i].catalogued = 1)
       => (/\ Len(rows') = Len(rows) + 1
           /\ SubSeq(rows', 1, Len(rows)) = rows
           /\ rows'[Len(rows')].page_id = call'.args.page_id
           /\ \A j \in 1..Len(rows') :
                rows'[j].page_id = call'.args.page_id
                    => rows'[j].last_seen <= rows'[Len(rows')].last_seen)]_vars

\* C6, its case: a new version was inserted beside a catalogued row of the
\* same page_id last seen on an earlier day
C6_Witness ==
    /\ call.branch = "insert_version"
    /\ \E j \in 1..(Len(rows) - 1) :
          /\ rows[j].page_id = rows[Len(rows)].page_id
          /\ rows[j].catalogued = 1
          /\ rows[j].last_seen < rows[Len(rows)].last_seen

\* C7: an upsert_page with a record_id overwrites exactly the row with that id
\* when there is one (row count and all other rows unchanged, whatever the
\* row's catalogued state and its page_id), and otherwise inserts one row
\* built from the snapshot; it does not raise.
C7_ExplicitRecordId ==
    [][(call'.branch # "none" /\ call'.args.record_id # 0)
       => (/\ call'.outcome # "raised"
           /\ IF call'.args.record_id \in 1..Len(rows)
              THEN /\ Len(rows') = Len(rows)
                   /\ SnapshotFields(rows'[call'.args.record_id], call'.args)
                   /\ rows'[call'.args.record_id].last_seen = today
                   /\ \A j \in 1..Len(rows) :
                        j # call'.args.record_id => rows'[j] = rows[j]
              ELSE /\ Len(rows') = Len(rows) + 1
                   /\ SubSeq(rows', 1, Len(rows)) = rows
                   /\ rows'[Len(rows')].page_id = call'.args.page_id
                   /\ SnapshotFields(rows'[Len(rows')], call'.args))]_vars

\* C7, its case: a row first seen on an earlier day was overwritten through
\* its id while the page of the snapshot had another row
C7_Witness ==
    /\ call.branch = "update_by_id"
    /\ \E j \in 1..Len(rows) : j # call.target /\ rows[j].page_id = call.args.page_id
    /\ rows[call.target].first_seen < rows[call.target].last_seen

\* C8: the row an upsert_page wrote has the catalogued value the caller
\* passed, and without one has 1 when status_code is not 0 and 0 when it is.
C8_CataloguedRule ==
    call.branch # "none"
    => rows[call.target].catalogued =
          (IF call.args.catalogued # NoneInt THEN call.args.catalogued
           ELSE IF call.args.status_code # 0 THEN 1 ELSE 0)

\* C8, its case: a row was written from a status_code of 0 without a
\* catalogued argument
C8_Witness ==
    /\ call.branch # "none"
    /\ call.args.catalogued = NoneInt
    /\ call.args.status_code = 0
    /\ rows[call.target].catalogued = 0

\* C9: in every reachable state each row's page_id is
\* page_id_from_canonical of its canonical_url.
C9_PageIdFromCanonical ==
    \A i \in 1..Len(rows) : rows[i].page_id = page_id_from_canonical(rows[i].canonical_url)

\* C10: normalize_url(normalize_url(u)) = normalize_url(u) for every URL u.
C10_Idempotent == Len(npass) = 2 => npass[2] = npass[1]

C12_QueryKept ==
    Len(npass) >= 1 =>
        parse_qsl(urlparse(npass[1]).query) = StripTracking(parse_qsl(urlparse(nurl).query))

\* C13: when the extraction fails (no API key, or a model output that is not
\* JSON) process_url raises and leaves pages_sem_inventory and
\* page_ai_extracts as they were.
C13_NothingWrittenOnFailedExtraction ==
    [][(call'.op = "process_url" /\ call'.reply \in {"no_key", "text"})
       => (/\ call'.outcome = "raised"
           /\ rows' = rows
           /\ extracts' = extracts)]_vars

SESSIONS == {1, 2}

\* keyword arguments of the concurrent calls, all for the page of
\* "https://a.com/p": the two snapshots of that page and a later 404 answer
CONC_SNAPSHOTS ==
    {kw \in SNAPSHOTS : kw.page_id = page_id_from_canonical("https://a.com/p")}
    \cup {[page_id |-> page_id_from_canonical("https://a.com/p"),
           url |-> "https://a.com/p", canonical_url |-> "https://a.com/p",
           status_code |-> 404, template_type |-> None, has_coupons |-> FALSE]}

\* the tables the calls start from: empty, or holding the row that one
\* earlier call wrote on day 1
CONC_TABLES == {<<>>} \cup {upsert_page(<<>>, WithDefaults(kw), 1) : kw \in CONC_SNAPSHOTS}

\* the UPDATE the session flushes for setattr(existing, key, val): the
\* columns whose new value differs from the one the session loaded
ChangedCols(cols, loaded) == [k \in {f \in DOMAIN cols : cols[f] # loaded[f]} |-> cols[k]]

ConcInit ==
    /\ rows \in CONC_TABLES
    /\ today = 2
    /\ conc \in {[base |-> rows, a |-> <<WithDefaults(k1), WithDefaults(k2)>>,
                  pc |-> <<"lookup", "lookup">>, branch |-> <<"none", "none">>,
                  target |-> <<0, 0>>, loaded |-> <<<<>>, <<>>>>] :
                    k1 \in CONC_SNAPSHOTS, k2 \in CONC_SNAPSHOTS}
    /\ extracts = <<>>
    /\ ops = 0
    /\ call = NoCall
    /\ nurl = ""
    /\ npass = <<>>
    /\ nalt = Unused
    /\ batch = Unused
    /\ fetch = Unused
    /\ recon = Unused
    /\ daily = Unused
    /\ crawl = Unused

\* pages.py:96-126: the session's SELECTs, which read the committed rows
ConcLookup(w) ==
    /\ conc.pc[w] = "lookup"
    /\ conc' = [conc EXCEPT
                  !.pc[w] = "write",
                  !.branch[w] = UpsertBranch(rows, conc.a[w]),
                  !.target[w] = UpsertTarget(rows, conc.a[w]),
                  !.loaded[w] = IF UpsertBranch(rows, conc.a[w]) \in {"update_by_id", "update_pending"}
                                THEN <<rows[UpsertTarget(rows, conc.a[w])]>> ELSE <<>>]
    /\ UNCHANGED <<rows, extracts, today, ops, call, nurl, npass, nalt, batch, fetch, recon, daily, crawl>>

\* pages.py:104-137 and the caller's session.commit(): the branch chosen at
\* the lookup is written, whatever has been committed since
ConcCommit(w) ==
    /\ conc.pc[w] = "write"
    /\ rows' = IF conc.branch[w] \in {"update_by_id", "update_pending"}
               THEN UpdateRow(rows, conc.target[w],
                              ChangedCols(UpdateCols(conc.a[w], today), conc.loaded[w][1]))
               ELSE InsertRow(rows, Values(conc.a[w], today))
    /\ conc' = [conc EXCEPT !.pc[w] = "done"]
    /\ UNCHANGED <<extracts, today, ops, call, nurl, npass, nalt, batch, fetch, recon, daily, crawl>>

ConcNext == \E w \in SESSIONS : ConcLookup(w) \/ ConcCommit(w)

ConcSpec == ConcInit /\ [][ConcNext]_vars

\* the table after the two calls ran one after the other, first then second
Sequential(tbl, first, second, day) == upsert_page(upsert_page(tbl, first, day), second, day)

\* C15: when both concurrent upsert_page calls for one page_id have
\* committed, the table is the one that running the two calls one after the
\* other, in one of the two orders, would have left.
C15_ConcurrentUpsertsSerialize ==
    (conc.pc[1] = "done" /\ conc.pc[2] = "done")
    => rows \in {Sequential(conc.base, conc.a[1], conc.a[2], today),
                 Sequential(conc.base, conc.a[2], conc.a[1], today)}

(***************************************************************************)
(* backend/app/ai/run_batch.py: the batch driver.  The workers are asyncio *)
(* tasks of one event loop, so a worker runs without interruption from one *)
(* suspension to the next.  It suspends in process_url, in                 *)
(* asyncio.sleep(300) and in q.get() on an empty queue; q.get() on a       *)
(* non-empty queue and the uncontended lock do not suspend.  process_url   *)
(* is taken here by the way it ends.                                       *)
(***************************************************************************)

MaxConcurrency == 2

CoolDownMinAttempts == 10

CoolDownMinFailures == 5

RecentMaxLen == 20

\* the ways process_url can end for a URL: a result, a result with
\* "skipped" set (existing page, redirect, 404), an exception with a
\* message, and an exception whose str() is empty
OUTCOMES == {"ok", "skipped", "raised", "raised_blank"}

\* run_batch.py:15-32: the dict _wrap_process returns
wrap_process(outcome) ==
    IF outcome = "raised" THEN [error |-> "boom", skipped |-> FALSE]
    ELSE IF outcome = "raised_blank" THEN [error |-> "", skipped |-> FALSE]
    ELSE [error |-> None, skipped |-> (outcome = "skipped")]

\* run_batch.py:105-109
StatusOf(r) ==
    IF r.error \notin {None, ""} THEN "fail"
    ELSE IF r.skipped THEN "skip"
    ELSE "ok"

\* deque(maxlen=20).append(x)
DequeAppend(recent, x) ==
    IF Len(recent) >= RecentMaxLen THEN Append(Tail(recent), x) ELSE Append(recent, x)

\* sum(recent)
RECURSIVE SumTrue(_)
SumTrue(recent) ==
    IF recent = <<>> THEN 0 ELSE (IF Head(recent) THEN 1 ELSE 0) + SumTrue(Tail(recent))

\* run_batch.py:131: len(recent) >= 10 and sum(recent) / len(recent) >= 0.5
\* and sum(recent) >= 5
CoolDown(recent) ==
    /\ Len(recent) >= CoolDownMinAttempts
    /\ 2 * SumTrue(recent) >= Len(recent)
    /\ SumTrue(recent) >= CoolDownMinFailures

\* a worker that forgets q.task_done()
TaskNotDone(unfinished) == unfinished

\* q.task_done()
task_done(unfinished) == unfinished - 1

\* one worker more than asked for
WorkerCountOneMore(concurrency) == concurrency + 1

\* run_batch.py:137: range(max(1, concurrency))
WorkerCount(concurrency) == IF concurrency > 1 THEN concurrency ELSE 1

Repeat(x, n) == [i \in 1..n |-> x]

\* the seed lists of the batch runs, each URL given by the way its
\* process_url ends: no URL, failures only, successes and failures in turn,
\* a short list with every outcome, and successes followed by failures,
\* longer than the deque
PLANS ==
    {<<>>,
     Repeat("raised", 12),
     [i \in 1..12 |-> IF i % 2 = 1 THEN "ok" ELSE "raised"],
     <<"ok", "skipped", "raised_blank", "raised">>,
     Repeat("ok", 16) \o Repeat("raised", 6)}

\* run_batch.py:77-87 and :137: the queue filled, the workers created.
\* results holds, for each queued URL, the statuses of its entries in the
\* results list
BatchStart(plan, concurrency) ==
    [plan |-> plan, concurrency |-> concurrency, next |-> 1, unfinished |-> Len(plan),
     pc |-> [w \in 1..WorkerCount(concurrency) |-> "new"],
     cur |-> [w \in 1..WorkerCount(concurrency) |-> 0],
     results |-> [u \in 1..Len(plan) |-> <<>>], recent |-> <<>>, cooldowns |-> 0,
     joined |-> FALSE]

\* run_batch.py:100-104: u = await q.get() and the call of _wrap_process
TakeNext(b, w) ==
    IF b.next <= Len(b.plan)
    THEN [b EXCEPT !.pc[w] = "processing", !.cur[w] = b.next, !.next = b.next + 1]
    ELSE [b EXCEPT !.pc[w] = "waiting", !.cur[w] = 0]

\* run_batch.py:105-130: the result recorded under the lock
Record(b, w) ==
    [b EXCEPT
       !.results[b.cur[w]] = Append(@, StatusOf(wrap_process(b.plan[b.cur[w]]))),
       !.recent = DequeAppend(b.recent, StatusOf(wrap_process(b.plan[b.cur[w]])) = "fail")]

\* run_batch.py:135 and the next turn of the loop
DoneAndNext(b, w) == TakeNext([b EXCEPT !.unfinished = task_done(b.unfinished)], w)

BatchInit ==
    /\ batch \in {BatchStart(plan, c) : plan \in PLANS, c \in 0..MaxConcurrency}
    /\ rows = <<>>
    /\ extracts = <<>>
    /\ today = 1
    /\ ops = 0
    /\ call = NoCall
    /\ nurl = ""
    /\ npass = <<>>
    /\ nalt = Unused
    /\ conc = Unused
    /\ fetch = Unused
    /\ recon = Unused
    /\ daily = Unused
    /\ crawl = Unused

\* a worker task runs for the first time; the event loop starts the tasks
\* in the order of their creation
WorkerStart(w) ==
    /\ ~batch.joined
    /\ batch.pc[w] = "new"
    /\ \A v \in 1..(w - 1) : batch.pc[v] # "new"
    /\ batch' = TakeNext(batch, w)
    /\ UNCHANGED <<rows, extracts, today, ops, call, nurl, npass, nalt, conc, fetch, recon, daily, crawl>>

\* _wrap_process returns to worker w, which runs up to its next suspension
WorkerFinish(w) ==
    /\ batch.pc[w] = "processing"
    /\ batch' = IF CoolDown(Record(batch, w).recent)
                THEN [Record(batch, w) EXCEPT !.pc[w] = "sleeping",
                                              !.cooldowns = batch.cooldowns + 1]
                ELSE DoneAndNext(Record(batch, w), w)
    /\ UNCHANGED <<rows, extracts, today, ops, call, nurl, npass, nalt, conc, fetch, recon, daily, crawl>>

\* the asyncio.sleep(300) of worker w ends (run_batch.py:133-135)
WorkerWake(w) ==
    /\ batch.pc[w] = "sleeping"
    /\ batch' = DoneAndNext([batch EXCEPT !.recent = <<>>], w)
    /\ UNCHANGED <<rows, extracts, today, ops, call, nurl, npass, nalt, conc, fetch, recon, daily, crawl>>

\* run_batch.py:138-141: q.join() returns and the workers are cancelled
QueueJoin ==
    /\ ~batch.joined
    /\ batch.unfinished = 0
    /\ batch' = [batch EXCEPT !.joined = TRUE,
                              !.pc = [w \in DOMAIN batch.pc |-> "cancelled"]]
    /\ UNCHANGED <<rows, extracts, today, ops, call, nurl, npass, nalt, conc, fetch, recon, daily, crawl>>

BatchNext ==
    \/ \E w \in DOMAIN batch.pc : WorkerStart(w)
    \/ \E w \in DOMAIN batch.pc : WorkerFinish(w)
    \/ \E w \in DOMAIN batch.pc : WorkerWake(w)
    \/ QueueJoin

BatchSpec == BatchInit /\ [][BatchNext]_vars

\* the event loop runs every task that is ready, process_url returns or
\* raises, and the sleep ends
BatchFairSpec == BatchSpec /\ WF_vars(BatchNext)

\* the number of URLs whose process_url is in flight
InFlight(b) == Cardinality({w \in DOMAIN b.pc : b.pc[w] = "processing"})

\* C16: from the moment a worker starts the cool-down sleep until the sleep
\* ends, no worker takes a URL from the queue or starts process_url.
C16_PoolPausedDuringCoolDown ==
    [][(\E w \in DOMAIN batch.pc : batch.pc[w] = "sleeping" /\ batch'.pc[w] = "sleeping")
       => (/\ batch'.next = batch.next
           /\ \A v \in DOMAIN batch.pc :
                 batch'.pc[v] = "processing" => batch.pc[v] = "processing")]_vars

\* C17: under fair scheduling q.join() returns, and then every queued URL
\* has exactly one entry in results, whose status is ok, skip or fail
\* according to the way its process_url ended, whatever the other URLs did.
C17_EveryUrlOnceAndJoin ==
    <>(/\ batch.joined
       /\ \A u \in 1..Len(batch.plan) :
             /\ Len(batch.results[u]) = 1
             /\ batch.results[u][1] \in {"ok", "skip", "fail"}
             /\ batch.results[u][1] = "fail" <=> batch.plan[u] = "raised"
             /\ batch.results[u][1] = "skip" <=> batch.plan[u] = "skipped")

\* C17, its case: a run with failures that went through a cool-down, had
\* successes after the first failure, and has joined
C17_Witness ==
    /\ batch.joined
    /\ batch.cooldowns >= 1
    /\ \E u \in 1..Len(batch.plan), v \in 1..Len(batch.plan) :
          u < v /\ batch.results[u] = <<"fail">> /\ batch.results[v] = <<"ok">>

\* C18: at most max(1, concurrency) URLs are in flight at any moment, and a
\* worker takes another URL only once the result of its previous URL is in
\* results.
C18_BoundedInFlight ==
    /\ [](InFlight(batch) <= IF batch.concurrency >= 1 THEN batch.concurrency ELSE 1)
    /\ [][\A w \in DOMAIN batch.pc :
            (batch.cur[w] # 0 /\ batch'.cur[w] # batch.cur[w])
            => Len(batch'.results[batch.cur[w]]) = 1]_vars

\* C18, its case: two workers asked for, both in flight, one of them on a
\* URL it took after its previous one was recorded
C18_Witness ==
    /\ batch.concurrency = 2
    /\ InFlight(batch) = 2
    /\ \E u \in 1..Len(batch.plan) : Len(batch.results[u]) = 1

(***************************************************************************)
(* backend/app/crawler/scrape.py: fetch_html.  One call, step by step: the *)
(* key check, the client.get inside "with attempt", the rest of the loop   *)
(* body, and the premium-proxy client.get.                                 *)
(***************************************************************************)

MaxAttempts == 3

\* the exceptions retry_if_exception_type names (scrape.py:44)
TRANSIENT == {"ReadTimeout", "ConnectError", "RemoteProtocolError"}

\* the httpx exceptions a client.get raises in the model; all of them are
\* httpx.HTTPError or httpx.TimeoutException
GET_ERRORS == TRANSIENT \cup {"ConnectTimeout"}

\* the responses of the scraping API: the HTTP status, the
\* X-Scrapingbee-Status and Spb-Initial-Status-Code headers (None when
\* absent), the body and the Spb-Resolved-Url header
GET_RESPONSES ==
    {[status |-> st, origin |-> o, initial |-> i, text |-> "<html>", resolved_url |-> None] :
        st \in {200, 404, 500}, o \in {None, "404", "500", "n/a"}, i \in {None, "301", "404"}}

\* int(h) if h is not None else None, None as well where int() raises
IntOrNone(h) ==
    IF h = None \/ h = "" \/ \E i \in 1..Len(h) : DigitVal(CharAt(h, i)) \notin 0..9
    THEN NoneInt
    ELSE ParseInt(h, 0)

\* scrape.py:54-69: origin_code of the first response
OriginCode(r) ==
    IF r.initial \notin {None, ""} /\ IntOrNone(r.initial) # NoneInt
    THEN IntOrNone(r.initial)
    ELSE IntOrNone(r.origin)

\* scrape.py:76 and :103
FetchFailed(status, origin_code) ==
    status >= 400 \/ (origin_code # NoneInt /\ origin_code >= 400)

NoResult == [kind |-> "none", status |-> 0, text |-> "", resolved_url |-> None, exc |-> None]

\* scrape.py:127: return origin_code or status, text, resolved_url
Returned(status, origin_code, text, resolved_url) ==
    [kind |-> "return",
     status |-> IF origin_code = NoneInt \/ origin_code = 0 THEN status ELSE origin_code,
     text |-> text, resolved_url |-> resolved_url, exc |-> None]

Raised(exc) == [NoResult EXCEPT !.kind = "raise", !.exc = exc]

FetchInit ==
    /\ fetch \in {[key |-> k, pc |-> "start", gets |-> 0, premium |-> 0, error |-> None,
                   resp |-> <<>>, result |-> NoResult] : k \in BOOLEAN}
    /\ rows = <<>>
    /\ extracts = <<>>
    /\ today = 1
    /\ ops = 0
    /\ call = NoCall
    /\ nurl = ""
    /\ npass = <<>>
    /\ nalt = Unused
    /\ conc = Unused
    /\ batch = Unused
    /\ recon = Unused
    /\ daily = Unused
    /\ crawl = Unused

\* scrape.py:19-20
FetchStart ==
    /\ fetch.pc = "start"
    /\ fetch' = IF fetch.key THEN [fetch EXCEPT !.pc = "get"]
                ELSE [fetch EXCEPT !.pc = "done", !.result = Raised("RuntimeError")]
    /\ UNCHANGED <<rows, extracts, today, ops, call, nurl, npass, nalt, conc, batch, recon, daily, crawl>>

\* scrape.py:47-49: client.get inside "with attempt".  The attempt manager
\* records an exception of the block and swallows it, so the statement
\* after the block runs next whether the request answered or raised.
FetchGet ==
    /\ fetch.pc = "get"
    /\ fetch.gets < MaxAttempts
    /\ \/ \E r \in GET_RESPONSES :
            fetch' = [fetch EXCEPT !.pc = "body", !.gets = @ + 1, !.resp = <<r>>,
                                   !.error = None]
       \/ \E e \in GET_ERRORS :
            fetch' = [fetch EXCEPT !.pc = "body", !.gets = @ + 1, !.error = e]
    /\ UNCHANGED <<rows, extracts, today, ops, call, nurl, npass, nalt, conc, batch, recon, daily, crawl>>

\* scrape.py:50-127: the loop body after the block.  It reads resp, a local
\* that is unbound when no request has answered (UnboundLocalError, which
\* the except clause of line 128 does not name); otherwise it returns or
\* goes on to the premium request.  The body never ends without a return
\* or an exception, so the retry loop is not asked for another attempt.
FetchBody ==
    /\ fetch.pc = "body"
    /\ fetch' =
         IF fetch.resp = <<>>
         THEN [fetch EXCEPT !.pc = "done", !.result = Raised("UnboundLocalError")]
         ELSE IF /\ FetchFailed(fetch.resp[1].status, OriginCode(fetch.resp[1]))
                 /\ fetch.resp[1].status # 404
                 /\ OriginCode(fetch.resp[1]) # 404
         THEN [fetch EXCEPT !.pc = "premium"]
         ELSE [fetch EXCEPT !.pc = "done",
                            !.result = Returned(fetch.resp[1].status, OriginCode(fetch.resp[1]),
                                                fetch.resp[1].text, fetch.resp[1].resolved_url)]
    /\ UNCHANGED <<rows, extracts, today, ops, call, nurl, npass, nalt, conc, batch, recon, daily, crawl>>

\* scrape.py:88-101 and :128-130: the premium-proxy request, outside the
\* attempt block; its httpx exception reaches the except clause
FetchPremium ==
    /\ fetch.pc = "premium"
    /\ \/ \E r \in GET_RESPONSES :
            fetch' = [fetch EXCEPT !.pc = "done", !.premium = @ + 1,
                                   !.result = Returned(r.status, IntOrNone(r.origin), r.text,
                                                       fetch.resp[1].resolved_url)]
       \/ \E e \in GET_ERRORS :
            fetch' = [fetch EXCEPT !.pc = "done", !.premium = @ + 1, !.error = e,
                                   !.result = Returned(599, NoneInt, "", None)]
    /\ UNCHANGED <<rows, extracts, today, ops, call, nurl, npass, nalt, conc, batch, recon, daily, crawl>>

FetchNext == FetchStart \/ FetchGet \/ FetchBody \/ FetchPremium

FetchSpec == FetchInit /\ [][FetchNext]_vars

\* C19: a finished fetch_html call with an API key made at most 3 standard
\* requests; if its last standard request ended in a transient transport
\* error it had made all 3 and returned (599, "", None); it did not raise;
\* a first response with HTTP or origin status 404 was returned without a
\* premium request, and any other failed first response was followed by
\* exactly one premium request.
C19_FetchRetryPolicy ==
    (fetch.pc = "done" /\ fetch.key)
    => /\ fetch.gets <= 3
       /\ fetch.result.kind = "return"
       /\ (fetch.premium = 0 /\ fetch.error \in TRANSIENT)
          => (/\ fetch.gets = 3
              /\ fetch.result.status = 599
              /\ fetch.result.text = ""
              /\ fetch.result.resolved_url = None)
       /\ fetch.resp # <<>>
          => IF fetch.resp[1].status = 404 \/ OriginCode(fetch.resp[1]) = 404
             THEN fetch.premium = 0
             ELSE IF fetch.resp[1].status >= 400 \/ OriginCode(fetch.resp[1]) >= 400
             THEN fetch.premium = 1
             ELSE fetch.premium = 0

(***************************************************************************)
(* reconcile_one on its own: the model outputs are built from a shape, the *)
(* has_promotion value and the text fields of each listing, the brands     *)
(* array and the other_promotions value, so that what comes out can be     *)
(* compared with what went in.                                             *)
(***************************************************************************)

MaxListings == 2

\* the has_promotion values of a listing: key absent, true, false, null,
\* "yes", "" and 0
FLAGS == {"missing", "true", "false", "null", "yes", "blank", "zero"}

\* a key the model output leaves out
Missing == <<"missing">>

Item(brand_name, position, location, product_name, product_offer_name) ==
    [brand_name |-> brand_name, position |-> position, location |-> location,
     product_name |-> product_name, product_offer_name |-> product_offer_name]

\* the text fields of the listings whose has_promotion value varies
PlainItem == Item(JStr("Acme"), Missing, Missing, Missing, Missing)

\* the text fields of a listing: plain, padded with blanks, in another case
\* and place, blank, absent, empty or null, and a position given as a number
ITEMS ==
    {Item(JStr("Acme"), JStr("1"), JStr("main_list"), JStr("Pro"), Missing),
     Item(JStr(" Acme "), JStr(" 2 "), JStr(" main_list "), Missing, JStr("Offer")),
     Item(JStr("acme"), JStr("3"), JStr("sidebar"), JStr(""), JStr("Offer")),
     Item(JStr("  "), JStr("4"), JStr("main_list"), JStr("  "), JStr("Offer")),
     Item(Missing, JStr("5"), Missing, JStr("Pro"), Missing),
     Item(JStr("Beta"), JStr(""), JStr("main_list"), JNull, JStr("Offer")),
     Item(JStr("Beta"), <<"num", 1>>, JStr("main_list"), JStr("Pro"), Missing)}

\* the brands values: absent, null, or a list of brands given by their
\* brand_name
BRAND_ARRAYS ==
    {[kind |-> "missing", names |-> <<>>], [kind |-> "null", names |-> <<>>],
     [kind |-> "list", names |-> <<>>],
     [kind |-> "list", names |-> <<JStr("Zed")>>],
     [kind |-> "list", names |-> <<JStr(" Zed "), JStr("Zed"), JStr("zed")>>],
     [kind |-> "list", names |-> <<JStr("")>>],
     [kind |-> "list", names |-> <<JStr("  "), Missing>>]}

NoBrands == [kind |-> "missing", names |-> <<>>]

\* the listings values: absent, null or a list of listings; the
\* other_promotions values: absent, null, [] or a list of one promotion.
\* Either the has_promotion values vary, or the text fields and the brands.
RECON_SHAPES ==
    {[listings |-> l, flags |-> f, items |-> [i \in DOMAIN f |-> PlainItem],
      brands |-> NoBrands, other |-> o] :
        l \in {"list"}, f \in UNION {[1..n -> FLAGS] : n \in 0..MaxListings},
        o \in {"missing", "null", "empty", "one"}}
    \cup {[listings |-> l, flags |-> <<>>, items |-> <<>>, brands |-> NoBrands, other |-> o] :
            l \in {"missing", "null"}, o \in {"missing", "null", "empty", "one"}}
    \cup {[listings |-> "list", flags |-> [i \in DOMAIN it |-> "missing"], items |-> it,
           brands |-> b, other |-> "missing"] :
            it \in UNION {[1..n -> ITEMS] : n \in 0..MaxListings}, b \in BRAND_ARRAYS}

FlagValue(flag) ==
    IF flag = "true" THEN JBool(TRUE)
    ELSE IF flag = "false" THEN JBool(FALSE)
    ELSE IF flag = "yes" THEN JStr("yes")
    ELSE IF flag = "blank" THEN JStr("")
    ELSE IF flag = "zero" THEN <<"num", 0>>
    ELSE JNull

ListingOf(flag, item) ==
    JDict([k \in {f \in DOMAIN item : item[f] # Missing}
                 \cup (IF flag = "missing" THEN {} ELSE {"has_promotion"}) |->
             IF k = "has_promotion" THEN FlagValue(flag) ELSE item[k]])

BrandOf(name) ==
    JDict([k \in (IF name = Missing THEN {} ELSE {"brand_name"}) |-> name])

\* the model output of a shape
DataOf(shape) ==
    JDict([k \in (IF shape.listings = "missing" THEN {} ELSE {"listings"})
                 \cup (IF shape.brands.kind = "missing" THEN {} ELSE {"brands"})
                 \cup (IF shape.other = "missing" THEN {} ELSE {"other_promotions"}) |->
             IF k = "listings"
             THEN (IF shape.listings = "null" THEN JNull
                   ELSE JList([i \in 1..Len(shape.flags) |->
                                 ListingOf(shape.flags[i], shape.items[i])]))
             ELSE IF k = "brands"
             THEN (IF shape.brands.kind = "null" THEN JNull
                   ELSE JList([i \in 1..Len(shape.brands.names) |->
                                 BrandOf(shape.brands.names[i])]))
             ELSE (IF shape.other = "null" THEN JNull
                   ELSE IF shape.other = "empty" THEN JList(<<>>)
                   ELSE JList(<<JStr("10% off")>>))])

NoMerge == [has_promotions |-> FALSE, brand_list |-> <<>>, brand_positions |-> None,
            product_list |-> <<>>, product_positions |-> None]

ReconInit ==
    /\ recon \in {[shape |-> sh, pc |-> "call", raised |-> FALSE, merged |-> NoMerge] :
                     sh \in RECON_SHAPES}
    /\ rows = <<>>
    /\ extracts = <<>>
    /\ today = 1
    /\ ops = 0
    /\ call = NoCall
    /\ nurl = ""
    /\ npass = <<>>
    /\ nalt = Unused
    /\ conc = Unused
    /\ batch = Unused
    /\ fetch = Unused
    /\ daily = Unused
    /\ crawl = Unused

\* merged = reconcile_one(data)
ReconcileOne ==
    /\ recon.pc = "call"
    /\ recon' = [recon EXCEPT
                   !.pc = "done",
                   !.raised = ReconcileRaises(DataOf(recon.shape)),
                   !.merged = IF ReconcileRaises(DataOf(recon.shape)) THEN NoMerge
                              ELSE reconcile_one(DataOf(recon.shape))]
    /\ UNCHANGED <<rows, extracts, today, ops, call, nurl, npass, nalt, conc, batch, fetch, daily, crawl>>

ReconNext == ReconcileOne

ReconSpec == ReconInit /\ [][ReconNext]_vars

\* C20: where reconcile_one returns, has_promotions is true exactly when
\* some listing has a truthy has_promotion value or other_promotions is a
\* non-empty list.
C20_HasPromotionsRule ==
    (recon.pc = "done" /\ ~recon.raised)
    => (recon.merged.has_promotions
        <=> \/ \E i \in 1..Len(recon.shape.flags) : recon.shape.flags[i] \in {"true", "yes"}
            \/ recon.shape.other = "one")

\* C20, its case: no listing is flagged, other_promotions holds a
\* promotion, and reconcile_one returned has_promotions = true
C20_Witness ==
    /\ recon.pc = "done"
    /\ ~recon.raised
    /\ recon.shape.flags = <<"false", "null">>
    /\ recon.shape.other = "one"
    /\ recon.merged.has_promotions

\* a text field of a shape as the claims read it: trimmed, and empty where
\* the field is absent or null
TextOf(v) == IF v[1] = "str" THEN Strip(v[2]) ELSE ""

\* the non-empty trimmed names among the values vals
UsableNames(vals) == {TextOf(vals[i]) : i \in DOMAIN vals} \ {""}

ListingBrands(shape) == [i \in DOMAIN shape.items |-> shape.items[i].brand_name]

ProductText(item) ==
    IF TextOf(item.product_name) # "" THEN TextOf(item.product_name)
    ELSE TextOf(item.product_offer_name)

\* the "name:position" entries of the listings in main_list that have a
\* name and a position, in listing order; names[i] is the name of listing i
RECURSIVE MainListEntries(_, _)
MainListEntries(items, names) ==
    IF items = <<>> THEN <<>>
    ELSE (IF /\ TextOf(items[1].location) = "main_list"
             /\ names[1] # ""
             /\ TextOf(items[1].position) # ""
          THEN <<names[1] \o ":" \o TextOf(items[1].position)>> ELSE <<>>)
         \o MainListEntries(Tail(items), Tail(names))

\* C22: where reconcile_one returns, brand_positions is the "; "-joined
\* list of "brand:position" for the listings located in main_list whose
\* trimmed brand name and position are non-empty, None when there is none,
\* and product_positions is the same with the product name, which is
\* product_offer_name when product_name is blank.
C22_Positions ==
    (recon.pc = "done" /\ ~recon.raised)
    => LET items == recon.shape.items
           brands == MainListEntries(items, [i \in DOMAIN items |-> TextOf(items[i].brand_name)])
           products == MainListEntries(items, [i \in DOMAIN items |-> ProductText(items[i])])
       IN  /\ recon.merged.brand_positions =
                 IF brands = <<>> THEN None ELSE Join(brands, "; ")
           /\ recon.merged.product_positions =
                 IF products = <<>> THEN None ELSE Join(products, "; ")

\* C23: reconcile_one returns for every model output; it never raises.
C23_ReconcileNeverRaises ==
    recon.pc = "done" => ~recon.raised

(***************************************************************************)
(* app/services/pages.py: query_pages, called without filters and with a   *)
(* limit that no table of the model exceeds                                *)
(***************************************************************************)

\* the rows the subquery groups: catalogued == 1 and airtable_id IS NOT NULL
InLatestSubq(row) == row.catalogued = 1 /\ row.airtable_id # None

\* the subquery's result: page_id -> max(last_seen) over the grouped rows
latest_subq(tbl) ==
    LET grouped == {i \in 1..Len(tbl) : InLatestSubq(tbl[i])}
        pages   == {tbl[i].page_id : i \in grouped}
    IN  [p \in pages |-> MaxOf({tbl[i].last_seen : i \in {g \in grouped : tbl[g].page_id = p}})]

\* url LIKE '%domain%'
Like(s, p) == \E i \in 1..(Len(s) - Len(p) + 1) : SubSeq(s, i, i + Len(p) - 1) = p

excluded_domains == {"usatoday.com", "gorenewalbyandersen.com", "carshieldplans.com"}

\* the two WHERE clauses every query carries (pages.py:180-186)
Listed(row) ==
    /\ row.page_status = None \/ row.page_status # "Inactive"
    /\ \A d \in excluded_domains : ~Like(row.url, d)

\* the ids of the rows query_pages returns: the table joined with the
\* subquery on page_id and last_seen, then filtered
query_pages(tbl) ==
    LET sub == latest_subq(tbl)
    IN  {i \in 1..Len(tbl) :
            /\ tbl[i].page_id \in DOMAIN sub
            /\ tbl[i].last_seen = sub[tbl[i].page_id]
            /\ Listed(tbl[i])}

(***************************************************************************)
(* scripts/database/build_unified_database.py: update_database for one     *)
(* unified record.  The sessions column is not part of the table model.    *)
(***************************************************************************)

\* a unified record built from an Airtable record whose landing page is
\* written the way the crawl stores the URL
UNIFIED_RECORDS ==
    {[original_url |-> "https://a.com/p", airtable_id |-> "recP",
      page_status |-> page_status, primary_category |-> "Loans",
      vertical |-> "Finance", channel |-> "SEM", team |-> "T1", brand |-> "B1"]
        : page_status \in {"Active", "Inactive"}}

\* the columns of the UPDATE ... WHERE url = :url (lines 271-292)
UnifiedCols(record) ==
    [airtable_id |-> record.airtable_id, page_status |-> record.page_status,
     primary_category |-> record.primary_category, vertical |-> record.vertical,
     channel |-> record.channel, team |-> record.team, brand |-> record.brand]

\* the row of the INSERT (lines 296-338)
UnifiedRow(record, page_id, day) ==
    [page_id |-> page_id, url |-> record.original_url,
     canonical_url |-> record.original_url, status_code |-> 200,
     primary_category |-> record.primary_category, vertical |-> record.vertical,
     template_type |-> None, has_coupons |-> FALSE, has_promotions |-> FALSE,
     brand_list |-> <<>>, brand_positions |-> None,
     product_list |-> <<>>, product_positions |-> None,
     first_seen |-> day, last_seen |-> day,
     airtable_id |-> record.airtable_id, channel |-> record.channel,
     team |-> record.team, brand |-> record.brand,
     page_status |-> record.page_status, catalogued |-> 0]

\* lines 262-340 for one record: every row with the record's URL is updated,
\* or a row is inserted when there is none
update_database(tbl, record, day) ==
    IF \E i \in 1..Len(tbl) : tbl[i].url = record.original_url
    THEN [i \in 1..Len(tbl) |->
            IF tbl[i].url = record.original_url
            THEN SetAttrs(tbl[i], UnifiedCols(record)) ELSE tbl[i]]
    ELSE InsertRow(tbl, UnifiedRow(record, UnifiedPageId(MaxUnifiedId(tbl) + 1), day))

\* one run of the unified-database build
BuildUnified ==
    /\ ops < MaxOps
    /\ ops' = ops + 1
    /\ \E record \in UNIFIED_RECORDS :
        /\ rows' = update_database(rows, record, today)
        /\ call' = [NoCall EXCEPT !.op = "update_database"]
    /\ UNCHANGED <<extracts, today, nurl, npass, nalt, conc, batch, fetch, recon, daily, crawl>>

\* the crawler service reports a page under the URL the crawl stored
STORED_BATCHES == {<<"https://a.com/p">>}

\* one run of the crawler update check on such a report
CheckStoredUrls ==
    /\ ops < MaxOps
    /\ ops' = ops + 1
    /\ \E updated \in STORED_BATCHES :
       \E picks \in [1..Len(UrlsToRecatalogue(rows, updated)) -> 0..Len(rows)],
          accepted \in [1..Len(UrlsToRecatalogue(rows, updated)) -> BOOLEAN] :
        /\ PicksPossible(rows, UrlsToRecatalogue(rows, updated), picks, accepted, 1, today)
        /\ rows' = check_updated_urls(rows, updated, picks, accepted, today)
        /\ call' = [NoCall EXCEPT !.op = "check_updated_urls"]
    /\ UNCHANGED <<extracts, today, nurl, npass, nalt, conc, batch, fetch, recon, daily, crawl>>

\* the inventory written by crawl snapshots, the unified-database build and
\* the crawler update check, as query_pages finds it
QueryNext ==
    \/ Tick
    \/ UpsertPage
    \/ BuildUnified
    \/ CheckStoredUrls

QuerySpec == Init /\ [][QueryNext]_vars

\* C24: in every table state query_pages returns at most one row per page_id,
\* and each returned row is catalogued, has an airtable_id, and has the
\* greatest last_seen among the catalogued rows with an airtable_id of its
\* page_id.
C24_LatestCataloguedVersion ==
    \A i \in query_pages(rows) :
        /\ rows[i].catalogued = 1
        /\ rows[i].airtable_id # None
        /\ \A j \in 1..Len(rows) :
              (rows[j].page_id = rows[i].page_id /\ InLatestSubq(rows[j]))
                  => rows[j].last_seen <= rows[i].last_seen
        /\ \A j \in query_pages(rows) : rows[j].page_id = rows[i].page_id => j = i

\* status codes that record a definitive crawl outcome: a success, a
\* redirect, or 404
Definitive(status_code) ==
    status_code \in 200..299 \/ status_code \in REDIRECTS \/ status_code = 404

\* C25: every row that a process_url call writes and leaves with
\* catalogued = 1 has a status_code that is a 2xx, a redirect or 404; a fetch
\* that ends in 599 or another 4xx/5xx leaves no catalogued row.
C25_CataloguedOnlyOnDefinitiveStatus ==
    [][(call'.op = "process_url" /\ call'.target # 0)
          => (rows'[call'.target].catalogued = 1
                 => Definitive(rows'[call'.target].status_code))]_vars

\* C26: over the upsert_page calls of a run, no row is removed, no row's
\* first_seen changes once the row exists, a call that overwrites a row in
\* place leaves that row's last_seen at the current date and every other row
\* as it was, and first_seen <= last_seen holds for every row at all times.
C26_RowsAndDates ==
    /\ [](\A i \in 1..Len(rows) : rows[i].first_seen <= rows[i].last_seen)
    /\ [][call'.branch # "none"
            => (/\ Len(rows') >= Len(rows)
                /\ \A i \in 1..Len(rows) : rows'[i].first_seen = rows[i].first_seen
                /\ Len(rows') = Len(rows)
                      => \E t \in 1..Len(rows) :
                            /\ rows'[t].last_seen = today
                            /\ \A j \in 1..Len(rows) : j # t => rows'[j] = rows[j])]_vars

\* C26, its case: a direct upsert_page call overwrote in place a row created
\* on an earlier day
C26_Witness ==
    /\ call.op = "upsert_page"
    /\ call.branch \in {"update_pending", "update_by_id"}
    /\ rows[call.target].first_seen >= 1
    /\ rows[call.target].first_seen < today
    /\ rows[call.target].last_seen = today

\* C28: an upsert_page call with the id of an existing row leaves that row's
\* page_id and first_seen as they were, whatever page_id the call passes; a
\* process_url call that completes a row this way leaves the row with the
\* url and canonical_url of the call and with its original page_id.
C28_RecordIdKeepsPageId ==
    [][(call'.branch # "none" /\ call'.args.record_id \in 1..Len(rows))
          => (/\ rows'[call'.args.record_id].page_id = rows[call'.args.record_id].page_id
              /\ rows'[call'.args.record_id].first_seen = rows[call'.args.record_id].first_seen
              /\ call'.op = "process_url"
                    => /\ rows'[call'.args.record_id].url = call'.args.url
                       /\ rows'[call'.args.record_id].canonical_url
                              = call'.args.canonical_url)]_vars

\* C28, its case: process_url completed a placeholder of the Airtable sync,
\* whose page_id is not the one computed from the canonical URL and whose
\* url was replaced
C28_Witness ==
    /\ call.op = "process_url"
    /\ call.branch = "update_by_id"
    /\ StartsWith(rows[call.target].page_id, "unified_")
    /\ call.args.page_id # rows[call.target].page_id
    /\ rows[call.target].url = "https://a.com/p"
    /\ rows[call.target].canonical_url = call.args.canonical_url

(***************************************************************************)
(* process_url with each of its three arguments drawn: the input line, the *)
(* skip_if_exists flag and the record_id keyword.  The rows it finds come   *)
(* from earlier calls and from the Airtable sync.                          *)
(***************************************************************************)

\* the first fetch_html answers drawn here: the page, or a 404
CALL_FETCHES == {r \in FETCHES : r.status \in {200, 404}}

ProcessCall ==
    /\ ops < MaxOps
    /\ ops' = ops + 1
    /\ \E input \in SEED_URLS \cup UncataloguedInputs(rows),
          skip_if_exists \in BOOLEAN, record_id \in 0..Len(rows),
          r1 \in CALL_FETCHES \cup {FetchRaised} :
       \E r2 \in IF NeedsSecondFetch(r1) /\ ~r1.raised THEN SecondFetches(r1) ELSE {r1} :
       \E x \in IF ReachesExtract(r1, r2) THEN EXTRACTS ELSE {ExtractRaised} :
        LET res == process_url(rows, extracts, today, input, skip_if_exists, record_id,
                               r1, r2, x)
        IN  /\ rows' = res.rows
            /\ extracts' = res.extracts
            /\ call' = [op |-> "process_url", input |-> input,
                        skip_if_exists |-> skip_if_exists, record_id |-> record_id,
                        args |-> res.args,
                        branch |-> IF res.args = NoArgs THEN "none"
                                   ELSE UpsertBranch(rows, res.args),
                        target |-> IF res.args = NoArgs THEN 0
                                   ELSE UpsertTarget(rows, res.args),
                        outcome |-> res.outcome, steps |-> res.steps,
                        status |-> res.status, reply |-> res.reply]
    /\ UNCHANGED <<today, nurl, npass, nalt, conc, batch, fetch, recon, daily, crawl>>

ProcessNext ==
    \/ SyncAirtable
    \/ ProcessCall

ProcessSpec == Init /\ [][ProcessNext]_vars

\* the call names a row: by the record_id keyword or by an "id|" prefix
RecordIdGiven(c) == c.record_id # 0 \/ Find(c.input, "|", 1) > 0

\* C29: a process_url call with skip_if_exists = True and no record id, for a
\* URL whose normalized form is the url of some inventory row, returns
\* skipped without calling fetch_html or any other collaborator and leaves
\* both tables unchanged; a call that names a record id, by keyword or by
\* prefix, is never skipped and calls fetch_html.
C29_SkipIfExists ==
    [][(call'.op = "process_url")
          => (/\ (/\ call'.skip_if_exists
                  /\ ~RecordIdGiven(call')
                  /\ \E i \in 1..Len(rows) :
                        rows[i].url = normalize_url("https://" \o call'.input))
                    => (/\ call'.outcome = "skipped"
                        /\ call'.steps = <<>>
                        /\ rows' = rows
                        /\ extracts' = extracts)
              /\ RecordIdGiven(call')
                    => (/\ call'.outcome # "skipped"
                        /\ call'.steps # <<>>
                        /\ call'.steps[1] = "fetch_html"))]_vars

\* C29, its case: a call for a seed URL was skipped while the inventory held
\* a row of that URL and its extract
C29_Witness ==
    /\ call.op = "process_url"
    /\ call.outcome = "skipped"
    /\ call.skip_if_exists
    /\ call.input \in SEED_URLS
    /\ \E i \in 1..Len(rows) : rows[i].url = "https://a.com/p"
    /\ Len(extracts) >= 1

(***************************************************************************)
(* scripts/daily_tasks/run_daily_tasks.py: main, with the task log of      *)
(* app/services/task_logger.py and the three tasks it runs on the          *)
(* inventory.  Writes to the task log succeed.                             *)
(***************************************************************************)

MaxRuns == 2

TASK_NAMES == {"airtable", "crawler", "cataloguer"}

\* the values CATALOGUER_CONCURRENCY can have: unset or a number, or a text
\* that int() rejects
ENVIRONMENTS == {"5", "five"}

LOG_NAMES == {"daily_tasks_orchestrator", "llm_cataloguing"}

NoLog == [status |-> "none", stats |-> {}]

\* TaskLogger.start: the row of the task log, status "running"
LogStart(logs, name) == [logs EXCEPT ![name] = [status |-> "running", stats |-> {}]]

\* TaskLogger.update_stats: the keys of the stats column
LogStats(logs, name, keys) == [logs EXCEPT ![name].stats = @ \cup keys]

\* TaskLogger.complete
LogComplete(logs, name) == [logs EXCEPT ![name].status = "completed"]

\* TaskLogger.fail
LogFail(logs, name) == [logs EXCEPT ![name].status = "failed"]

NoStats == <<"unset">>

StatsOf(n) == <<"stats", n>>

ErrorOf(e) == <<"error", e>>

\* the statement main runs after a task's block
AfterTask(task) ==
    IF task = "airtable" THEN "crawler"
    ELSE IF task = "crawler" THEN "cataloguer"
    ELSE "summary"

\* a main without the try blocks: the exception leaves the with statement,
\* log_task_execution marks the log failed and re-raises
PropagateException(d, task, e) ==
    [d EXCEPT !.raised = @ \cup {task},
              !.logs = LogFail(d.logs, "daily_tasks_orchestrator"),
              !.result = "raised",
              !.pc = "done"]

\* except Exception as e: all_stats[task] = {"error": str(e)}
OnException(d, task, e) ==
    [d EXCEPT !.raised = @ \cup {task},
              !.all_stats[task] = ErrorOf(e),
              !.pc = AfterTask(task)]

\* the task returned stats: all_stats[task] = stats and
\* task_log.update_stats({task: stats})
OnReturn(d, task, stats) ==
    [d EXCEPT !.all_stats[task] = stats,
              !.logs = LogStats(d.logs, "daily_tasks_orchestrator", {task}),
              !.pc = AfterTask(task)]

\* the call of the task's function has begun
Started(d, task) == [d EXCEPT !.started = Append(@, task)]

\* process_uncatalogued(count=None, concurrency, enable_logging=True) on the
\* table tbl: with no pending row it returns zero counts; with pending rows
\* it calls run_batch.main with force=True, a keyword that main does not
\* have, and the TypeError leaves through log_task_execution
process_uncatalogued(d, tbl) ==
    IF UncataloguedInputs(tbl) = {}
    THEN OnReturn([d EXCEPT !.logs = LogComplete(LogStats(LogStart(d.logs, "llm_cataloguing"),
                                                          "llm_cataloguing", {"total_urls"}),
                                                 "llm_cataloguing")],
                  "cataloguer", StatsOf(0))
    ELSE OnException([d EXCEPT !.logs = LogFail(LogStats(LogStart(d.logs, "llm_cataloguing"),
                                                         "llm_cataloguing", {"total_urls"}),
                                                "llm_cataloguing")],
                     "cataloguer", "TypeError")

DailyInit ==
    /\ rows = <<>>
    /\ extracts = <<>>
    /\ today = 1
    /\ ops = 0
    /\ call = NoCall
    /\ nurl = ""
    /\ npass = <<>>
    /\ nalt = Unused
    /\ conc = Unused
    /\ batch = Unused
    /\ fetch = Unused
    /\ recon = Unused
    /\ crawl = Unused
    /\ daily \in {[pc |-> "new", env |-> env, runs |-> 1, started |-> <<>>, raised |-> {},
                    all_stats |-> [t \in TASK_NAMES |-> NoStats],
                    logs |-> [n \in LOG_NAMES |-> NoLog], result |-> "none"] :
                      env \in ENVIRONMENTS}

\* with log_task_execution("daily_tasks_orchestrator") as task_log
DailyStart ==
    /\ daily.pc = "new"
    /\ daily' = [daily EXCEPT !.pc = "airtable",
                              !.logs = LogStart(daily.logs, "daily_tasks_orchestrator")]
    /\ UNCHANGED <<rows, extracts, today, ops, call, nurl, npass, nalt, conc, batch, fetch, recon, crawl>>

\* task 1: sync_airtable_data() returns its counts, or raises
DailyAirtable ==
    /\ daily.pc = "airtable"
    /\ \/ \E records \in AIRTABLE_BATCHES :
          \E order \in Orders(UrlsToAdd(rows, records)),
             accepted \in SUBSET UrlsToAdd(rows, records) :
            /\ rows' = sync_airtable_data(rows, records, order, accepted)
            /\ daily' = OnReturn(Started(daily, "airtable"), "airtable",
                                 StatsOf(Len(rows') - Len(rows)))
       \/ /\ rows' = rows
          /\ daily' = OnException(Started(daily, "airtable"), "airtable", "AirtableError")
    /\ UNCHANGED <<extracts, today, ops, call, nurl, npass, nalt, conc, batch, fetch, recon, crawl>>

\* task 2: check_updated_urls(days=1) returns its counts, or raises
DailyCrawler ==
    /\ daily.pc = "crawler"
    /\ \/ \E updated \in CRAWLER_BATCHES :
          \E picks \in [1..Len(UrlsToRecatalogue(rows, updated)) -> 0..Len(rows)],
             accepted \in [1..Len(UrlsToRecatalogue(rows, updated)) -> BOOLEAN] :
            /\ PicksPossible(rows, UrlsToRecatalogue(rows, updated), picks, accepted, 1, today)
            /\ rows' = check_updated_urls(rows, updated, picks, accepted, today)
            /\ daily' = OnReturn(Started(daily, "crawler"), "crawler",
                                 StatsOf(Len(rows') - Len(rows)))
       \/ /\ rows' = rows
          /\ daily' = OnException(Started(daily, "crawler"), "crawler", "CrawlerError")
    /\ UNCHANGED <<extracts, today, ops, call, nurl, npass, nalt, conc, batch, fetch, recon, crawl>>

\* task 3: int(os.environ.get("CATALOGUER_CONCURRENCY", "5")), then
\* process_uncatalogued
DailyCataloguer ==
    /\ daily.pc = "cataloguer"
    /\ daily' = IF daily.env = "five"
                THEN OnException(daily, "cataloguer", "ValueError")
                ELSE process_uncatalogued(Started(daily, "cataloguer"), rows)
    /\ UNCHANGED <<rows, extracts, today, ops, call, nurl, npass, nalt, conc, batch, fetch, recon, crawl>>

\* the return of main and the exit of the with statement: task_log.complete()
DailyFinish ==
    /\ daily.pc = "summary"
    /\ daily' = [daily EXCEPT !.pc = "done", !.result = "success",
                              !.logs = LogComplete(daily.logs, "daily_tasks_orchestrator")]
    /\ UNCHANGED <<rows, extracts, today, ops, call, nurl, npass, nalt, conc, batch, fetch, recon, crawl>>

\* the next day's run, on the inventory the earlier runs left
DailyAgain ==
    /\ daily.pc = "done"
    /\ daily.runs < MaxRuns
    /\ today' = today + 1
    /\ daily' = [pc |-> "new", env |-> daily.env, runs |-> daily.runs + 1, started |-> <<>>,
                 raised |-> {}, all_stats |-> [t \in TASK_NAMES |-> NoStats],
                 logs |-> [n \in LOG_NAMES |-> NoLog], result |-> "none"]
    /\ UNCHANGED <<rows, extracts, ops, call, nurl, npass, nalt, conc, batch, fetch, recon, crawl>>

DailyNext ==
    \/ DailyStart
    \/ DailyAirtable
    \/ DailyCrawler
    \/ DailyCataloguer
    \/ DailyFinish
    \/ DailyAgain

DailySpec == DailyInit /\ [][DailyNext]_vars

\* the order of the three tasks
TaskOrder == <<"airtable", "crawler", "cataloguer">>

MaxTasks == 2

MaxClock == 7

\* min_interval_s = 1.0, in ticks
MinInterval == 2

CRAWL_TASKS == 1..MaxTasks

\* a variant of the sleep that returns at once
NoSleep(now, wait) == now

\* asyncio.sleep(wait) called at `now`: the earliest time the task resumes
SleepUntil(now, wait) == now + wait

\* wait = min_interval_s - (now - _last_fetch_ts)
WaitFor(min_interval_s, now, last_fetch_ts) == min_interval_s - (now - last_fetch_ts)

CrawlInit ==
    /\ rows = <<>>
    /\ extracts = <<>>
    /\ today = 1
    /\ ops = 0
    /\ call = NoCall
    /\ nurl = ""
    /\ npass = <<>>
    /\ nalt = Unused
    /\ conc = Unused
    /\ batch = Unused
    /\ fetch = Unused
    /\ recon = Unused
    /\ daily = Unused
    /\ crawl \in {[clock |-> t0, last_fetch_ts |-> 0, locked |-> 0, waiters |-> <<>>,
                    pc |-> [w \in CRAWL_TASKS |-> "start"],
                    gate |-> [w \in CRAWL_TASKS |-> 1],
                    wake |-> [w \in CRAWL_TASKS |-> 0],
                    inside |-> {}, stamps |-> <<>>, fetches |-> <<>>] : t0 \in 0..1}

\* time.monotonic() advances
CrawlTick ==
    /\ crawl.clock < MaxClock
    /\ crawl' = [crawl EXCEPT !.clock = @ + 1]
    /\ UNCHANGED <<rows, extracts, today, ops, call, nurl, npass, nalt, conc, batch, fetch, recon, daily>>

\* lines 56-59 for the task that holds the lock: it reads the clock, and
\* sleeps when the last fetch is too recent
Measure(c, w) ==
    IF WaitFor(MinInterval, c.clock, c.last_fetch_ts) > 0
    THEN [c EXCEPT !.pc[w] = "sleeping",
                   !.wake[w] = SleepUntil(c.clock, WaitFor(MinInterval, c.clock, c.last_fetch_ts)),
                   !.inside = @ \cup {w}]
    ELSE [c EXCEPT !.pc[w] = "stamp", !.inside = @ \cup {w}]

\* async with _rate_lock, entered by task w: it takes a free lock with no
\* waiter and goes on, or joins the waiters
Enter(w) ==
    /\ crawl.pc[w] \in {"start", "fallback"}
    /\ crawl' = IF crawl.locked = 0 /\ crawl.waiters = <<>>
                THEN Measure([crawl EXCEPT !.locked = w], w)
                ELSE [crawl EXCEPT !.pc[w] = "waiting", !.waiters = Append(@, w)]
    /\ UNCHANGED <<rows, extracts, today, ops, call, nurl, npass, nalt, conc, batch, fetch, recon, daily>>

\* the first waiter is given the released lock
Acquire(w) ==
    /\ crawl.pc[w] = "waiting"
    /\ crawl.locked = 0
    /\ crawl.waiters # <<>> /\ Head(crawl.waiters) = w
    /\ crawl' = Measure([crawl EXCEPT !.locked = w, !.waiters = Tail(@)], w)
    /\ UNCHANGED <<rows, extracts, today, ops, call, nurl, npass, nalt, conc, batch, fetch, recon, daily>>

\* the sleep is over
Wake(w) ==
    /\ crawl.pc[w] = "sleeping"
    /\ crawl.clock >= crawl.wake[w]
    /\ crawl' = [crawl EXCEPT !.pc[w] = "stamp"]
    /\ UNCHANGED <<rows, extracts, today, ops, call, nurl, npass, nalt, conc, batch, fetch, recon, daily>>

\* line 60 and the end of the with block: _last_fetch_ts is set, the lock is
\* released, _respect_rate_limit returns and crawl_url calls fetch_html
Complete(w) ==
    /\ crawl.pc[w] = "stamp"
    /\ crawl' = [crawl EXCEPT !.last_fetch_ts = crawl.clock,
                              !.locked = 0,
                              !.inside = @ \ {w},
                              !.stamps = Append(@, crawl.clock),
                              !.fetches = Append(@, crawl.clock),
                              !.pc[w] = "fetching"]
    /\ UNCHANGED <<rows, extracts, today, ops, call, nurl, npass, nalt, conc, batch, fetch, recon, daily>>

\* fetch_html has answered: after the first fetch crawl_url either goes to the
\* fallback fetch (lines 75-78) or to the parsing; after the fallback it ends
FetchAnswered(w) ==
    /\ crawl.pc[w] = "fetching"
    /\ \E fallback \in BOOLEAN :
        crawl' = IF crawl.gate[w] = 1 /\ fallback
                 THEN [crawl EXCEPT !.pc[w] = "fallback", !.gate[w] = 2]
                 ELSE [crawl EXCEPT !.pc[w] = "done"]
    /\ UNCHANGED <<rows, extracts, today, ops, call, nurl, npass, nalt, conc, batch, fetch, recon, daily>>

CrawlNext ==
    \/ CrawlTick
    \/ \E w \in CRAWL_TASKS : Enter(w)
    \/ \E w \in CRAWL_TASKS : Acquire(w)
    \/ \E w \in CRAWL_TASKS : Wake(w)
    \/ \E w \in CRAWL_TASKS : Complete(w)
    \/ \E w \in CRAWL_TASKS : FetchAnswered(w)

CrawlSpec == CrawlInit /\ [][CrawlNext]_vars

\* C30: at any time at most one crawl_url task is between the clock reading
\* and the completion of _respect_rate_limit, any two successive completions
\* are at least min_interval_s apart, and so are the starts of any two
\* fetches that follow them.
C30_RateLimit ==
    /\ Cardinality(crawl.inside) <= 1
    /\ \A i \in 1..(Len(crawl.stamps) - 1) :
          crawl.stamps[i + 1] - crawl.stamps[i] >= MinInterval
    /\ \A i, j \in 1..Len(crawl.fetches) :
          i # j => (crawl.fetches[i] - crawl.fetches[j] >= MinInterval
                    \/ crawl.fetches[j] - crawl.fetches[i] >= MinInterval)

\* C30, its case: after two fetches had started both tasks asked for the
\* gate again, and one waits for the lock while the other sleeps
C30_Witness ==
    /\ Len(crawl.stamps) >= 2
    /\ \A w \in CRAWL_TASKS : crawl.gate[w] = 2
    /\ \E w \in CRAWL_TASKS : crawl.pc[w] = "waiting"
    /\ \E w \in CRAWL_TASKS : crawl.pc[w] = "sleeping"
====
